---- MODULE Spec2Model ----
(***************************************************************************)
(* Model of the STMPO After Effects orchestrator (stmpo_wrapper.py): the   *)
(* range splitter, the main activity (setup, spawn loop, monitor loop,     *)
(* cleanup and exit paths), the signal handlers, the per-child reader      *)
(* activities, the offloader activity's life cycle and the renderer        *)
(* children as an environment.                                             *)
(*                                                                         *)
(* Worker PIDs are the spawn indices 1, 2, ...  A log line is abstracted   *)
(* to the set of substrings the supervisor searches it for (LineKinds).    *)
(* Time is an integer number of seconds.                                   *)
(***************************************************************************)
EXTENDS Integers, Sequences, FiniteSets, TLC

VARIABLES
    call,                   \* pure-function harness: inputs and result of one call
    args,                   \* parsed command line (parse_args)
    lim,                    \* this run's environment: clock horizon, lines written and
                            \* their kinds, signals, whether psutil attaches to child i
    pc,                     \* position of the main activity
    retpc,                  \* where cleanup_resources returns to
    exitCode,               \* process exit code, NoExit while the process lives
    sigCount,               \* SIGINT/SIGTERM deliveries handled so far
    spawnFailed,            \* a Popen call has raised
    concurrency,            \* main: concurrency
    ranges,                 \* main: ranges
    iSpawn,                 \* main: spawn loop index (1-based)
    children,               \* main: children (ChildProc records)
    pipe,                   \* per child: lines written, not yet read by its reader
    written,                \* number of lines the children have written so far
    out_q,                  \* main: out_q
    log,                    \* consolidated log: the [PID n] lines, in order
    last_log_time,          \* main: last_log_time
    last_log_line,          \* main: last_log_line
    render_progress,        \* main: render_progress
    child_failures,         \* main: child_failures
    stalled_pids,           \* main: stalled_pids
    zero_cpu_counts,        \* main: zero_cpu_counts
    zero_cpu_global_streak, \* main: zero_cpu_global_streak
    job_failed,             \* main: job_failed
    last_heartbeat,         \* main: last_heartbeat
    now,                    \* the clock (time.time())
    stop_children_event,    \* main: stop_children_event
    stop_offload_event,     \* main: stop_offload_event
    offl,                   \* offloader activity: "none", "scan", "final", "done"
    scratch,                \* the local scratch directory exists
    termCount,              \* terminate requests sent, by detector and PID
    hist,                   \* what the heartbeats have observed so far (history)
    ofl                     \* offload_worker in detail: its position, the files in
                            \* scratch and at the destination

pureVars == <<call>>

mainVars == <<args, lim, pc, retpc, exitCode, sigCount, spawnFailed,
              concurrency, ranges, iSpawn, children, pipe, written, out_q, log,
              last_log_time, last_log_line, render_progress, child_failures,
              stalled_pids, zero_cpu_counts, zero_cpu_global_streak, job_failed,
              last_heartbeat, now, stop_children_event, stop_offload_event,
              offl, scratch, termCount, hist, ofl>>

vars == <<call, mainVars>>

(***************************************************************************)
(* Program constants                                                       *)
(***************************************************************************)
HEARTBEAT_SECONDS == 15
LOG_SILENCE_TIMEOUT == 300
ZERO_CPU_STUCK_HEARTBEATS == 4
OFFLOAD_BURST_LIMIT == 5
OFFLOAD_SCAN_INTERVAL == 25     \* 2.5 s, in tenths of a second
OFFLOAD_IDLE_INTERVAL == 50     \* 5.0 s, in tenths of a second

(***************************************************************************)
(* Bounds of the model                                                     *)
(***************************************************************************)
MaxWorkers == 2         \* PIDs range over 1..MaxWorkers
MaxLines == 2           \* log lines the children write in one run of Spec
MaxLinesSignal == 1     \* ... of SpecSignal
MaxLinesSilence == 1    \* ... of SpecSilence
MaxSignals == 1         \* signals delivered in one run
MaxTime == 15           \* clock horizon of Spec
MaxTimeSilence == 330   \* clock horizon of SpecSilence
MaxLinesAffinity == 1   \* log lines the children write in one run of SpecAffinity
MaxLinesProgress == 2   \* log lines the worker writes in one run of SpecProgress
MaxLinesZeroCpu == 1    \* log lines the children write in one run of SpecZeroCpu
MaxTimeZeroCpu == 62    \* clock horizon of SpecZeroCpu: four heartbeats after two spawns
MaxFiles == 20          \* scratch files of one run
MaxHeldOpen == 1        \* SpecBurst: files a child holds open throughout
MaxFilesRace == 1       \* SpecOffload: files the children write
MaxOpens == 2           \* SpecOffload: times a file is opened for writing
MaxData == 1            \* SpecOffload: writes to one file
MaxScans == 5           \* SpecBurst: the count of the offloader's scans stops here
MaxSplitFrame == 4      \* SpecSplit: start and end range over -1..MaxSplitFrame
MaxSplitParts == 5      \* SpecSplit: parts ranges over -1..MaxSplitParts
MaxChunkFrame == 5      \* SpecChunks: frames are drawn from 0..MaxChunkFrame
MaxChunkSize == 3       \* SpecChunks: chunk_size ranges over 0..MaxChunkSize
MaxTaskFrame == 3       \* SpecTask: frame numbers of a frames spec are 0..MaxTaskFrame
MaxTaskParts == 2       \* SpecTask: comma-separated parts of a frames spec
MaxTaskChunk == 2       \* SpecTask: --chunk-size and --index range over 0..MaxTaskChunk
MaxPlanFrames == 4      \* SpecPlan: frame ranges of 1..MaxPlanFrames frames
MaxPlanConcurrency == 3 \* SpecPlan: --concurrency ranges over 0..MaxPlanConcurrency
MaxPlanCap == 2         \* SpecPlan: --max_concurrency ranges over 0..MaxPlanCap
MaxPools == 2           \* SpecBlocks: pools in the NUMA map
MaxPoolCpus == 2        \* SpecBlocks: CPU ids in one pool
MaxCpuId == 2           \* SpecBlocks: CPU ids are 1..MaxCpuId
MaxBlocks == 5          \* SpecBlocks: concurrency ranges over -1..MaxBlocks

NoExit == 0 - 1
Pids == 1 .. MaxWorkers

Min2(a, b) == IF a <= b THEN a ELSE b
Max2(a, b) == IF a >= b THEN a ELSE b

\* Python's // and % (floor division) for a divisor of either sign.
PyFloorDiv(a, b) == IF b > 0 THEN a \div b ELSE (0 - a) \div (0 - b)
PyMod(a, b) == a - b * PyFloorDiv(a, b)

(***************************************************************************)
(* split_ranges                                                            *)
(***************************************************************************)
RECURSIVE split_loop_nospread(_, _, _, _, _)
split_loop_nospread(i, parts, base, rem, cur) ==
    IF i >= parts THEN <<>>
    ELSE LET span == base + (IF i = 0 THEN rem ELSE 0)
             s == cur
             e == cur + span - 1
         IN  <<<<s, e>>>> \o split_loop_nospread(i + 1, parts, base, rem, e)

RECURSIVE split_loop_remfirst(_, _, _, _, _)
split_loop_remfirst(i, parts, base, rem, cur) ==
    IF i >= parts THEN <<>>
    ELSE LET span == base + (IF i = 0 THEN rem ELSE 0)
             s == cur
             e == cur + span - 1
         IN  <<<<s, e>>>> \o split_loop_remfirst(i + 1, parts, base, rem, e + 1)

\* for i in range(parts): span, s, e, append, cur = e + 1
RECURSIVE split_loop(_, _, _, _, _)
split_loop(i, parts, base, rem, cur) ==
    IF i >= parts THEN <<>>
    ELSE LET span == base + (IF i < rem THEN 1 ELSE 0)
             s == cur
             e == cur + span - 1
         IN  <<<<s, e>>>> \o split_loop(i + 1, parts, base, rem, e + 1)

\* The result is [err, ranges]: err is TRUE when the call raises
\* ZeroDivisionError (total = 0, so parts is clamped to 0).
split_ranges(start, end, parts) ==
    LET total == end - start + 1
        p1 == IF parts <= 0 THEN 1 ELSE parts
        p2 == IF p1 > total THEN total ELSE p1
    IN  IF p2 = 0
        THEN [err |-> TRUE, ranges |-> <<>>]
        ELSE [err |-> FALSE,
              ranges |-> split_loop(0, p2, PyFloorDiv(total, p2), PyMod(total, p2), start)]

(***************************************************************************)
(* load_numa_nodes, numa_nodes_to_pools                                    *)
(* A NUMA map is the sequence of its entries in the order of their keys    *)
(* (group_0, group_1, ...); an entry is [ok, cpus]: ok says that every     *)
(* value of the entry converts with int(), cpus are the converted values   *)
(* in file order.                                                          *)
(***************************************************************************)
\* load_numa_nodes: entries that do not convert are left out.
load_numa_nodes(data) == SelectSeq(data, LAMBDA entry : entry.ok)

\* sorted(cpus): ascending, equal ids kept.
RECURSIVE Insert(_, _)
Insert(x, s) ==
    IF s = <<>> THEN <<x>>
    ELSE IF x <= Head(s) THEN <<x>> \o s
    ELSE <<Head(s)>> \o Insert(x, Tail(s))

RECURSIVE sorted(_)
sorted(s) == IF s = <<>> THEN <<>> ELSE Insert(Head(s), sorted(Tail(s)))

\* for node_id, cpus in sorted(numa_nodes.items(), key=key_fn):
\*     if not cpus: continue
\*     pools.append(sorted(cpus))
RECURSIVE numa_nodes_to_pools(_)
numa_nodes_to_pools(numa_nodes) ==
    IF numa_nodes = <<>> THEN <<>>
    ELSE (IF Head(numa_nodes).cpus = <<>> THEN <<>> ELSE <<sorted(Head(numa_nodes).cpus)>>)
             \o numa_nodes_to_pools(Tail(numa_nodes))

(***************************************************************************)
(* build_affinity_blocks                                                   *)
(* pools is a sequence of sequences of CPU ids, the result a sequence of   *)
(* blocks.                                                                 *)
(***************************************************************************)
\* for p in pools: all_cpus.extend(p)
RECURSIVE Flatten(_)
Flatten(pools) == IF pools = <<>> THEN <<>> ELSE Head(pools) \o Flatten(Tail(pools))

\* all_cpus[cur:cur + span], cur counted from 0: the slice is cut at the end
\* of the list.
PySlice(s, cur, span) == SubSeq(s, cur + 1, Min2(cur + span, Len(s)))

\* if not slice_cpus: slice_cpus = [all_cpus[-1]]
PadSlice_none(slice_cpus, all_cpus) == slice_cpus

PadSlice(slice_cpus, all_cpus) ==
    IF slice_cpus = <<>> THEN <<all_cpus[Len(all_cpus)]>> ELSE slice_cpus

RECURSIVE blocks_loop_norem(_, _, _, _, _, _)
blocks_loop_norem(i, n_blocks, base, rem, cur, all_cpus) ==
    IF i >= n_blocks THEN <<>>
    ELSE LET span == IF base <= 0 THEN 1 ELSE base
         IN  <<PadSlice(PySlice(all_cpus, cur, span), all_cpus)>>
                 \o blocks_loop_norem(i + 1, n_blocks, base, rem, cur + span, all_cpus)

\* for i in range(concurrency): span, slice_cpus, blocks.append, cur += span
RECURSIVE blocks_loop(_, _, _, _, _, _)
blocks_loop(i, n_blocks, base, rem, cur, all_cpus) ==
    IF i >= n_blocks THEN <<>>
    ELSE LET span0 == base + (IF i < rem THEN 1 ELSE 0)
             span == IF span0 <= 0 THEN 1 ELSE span0
         IN  <<PadSlice(PySlice(all_cpus, cur, span), all_cpus)>>
                 \o blocks_loop(i + 1, n_blocks, base, rem, cur + span, all_cpus)

build_affinity_blocks(n_blocks, pools) ==
    LET all_cpus == Flatten(pools)
        total_cpus == Len(all_cpus)
    IN  IF n_blocks <= 0 \/ pools = <<>> \/ all_cpus = <<>>
        THEN <<>>
        ELSE blocks_loop(0, n_blocks, PyFloorDiv(total_cpus, n_blocks),
                         PyMod(total_cpus, n_blocks), 0, all_cpus)

(***************************************************************************)
(* call_aerender.py: build_chunks                                          *)
(* A Chunk is a record [index, start_frame, end_frame].                    *)
(***************************************************************************)
\* if count >= chunk_size ...
ChunkFull_late(count, chunk_size) == count > chunk_size

ChunkFull(count, chunk_size) == count >= chunk_size

\* for f in frames[1:]: ...; chunks.append(Chunk(chunk_index, chunk_start, prev))
RECURSIVE chunks_loop(_, _, _, _, _, _)
chunks_loop(rest, chunk_size, prev, count, chunk_start, chunk_index) ==
    LET chunk == [index |-> chunk_index, start_frame |-> chunk_start, end_frame |-> prev]
    IN  IF rest = <<>> THEN <<chunk>>
        ELSE LET f == Head(rest)
             IN  IF ChunkFull(count, chunk_size) \/ f # prev + 1
                 THEN <<chunk>> \o chunks_loop(Tail(rest), chunk_size, f, 1, f, chunk_index + 1)
                 ELSE chunks_loop(Tail(rest), chunk_size, f, count + 1, chunk_start, chunk_index)

build_chunks(frames, chunk_size) ==
    IF frames = <<>> THEN <<>>
    ELSE chunks_loop(Tail(frames), chunk_size, frames[1], 1, frames[1], 0)

\* sorted(set(frames)), the last line of parse_frames.
RECURSIVE SortedSeq(_)
SortedSeq(S) ==
    IF S = {} THEN <<>>
    ELSE LET m == CHOOSE x \in S : \A y \in S : x <= y
         IN  <<m>> \o SortedSeq(S \ {m})

(***************************************************************************)
(* call_aerender.py: parse_frames and select_task_range                    *)
(* A frames spec is the sequence of its comma-separated parts; a part is   *)
(* [kind, a, b]: "empty" (blank, skipped), "one" (the number a) or "range" *)
(* ("a-b").  An optional integer argument is [given, v], given = FALSE for *)
(* None.                                                                   *)
(***************************************************************************)
\* frames.extend(range(start, end + 1)) / frames.append(int(part))
PartFrames(part) ==
    IF part.kind = "range" THEN part.a .. part.b
    ELSE IF part.kind = "one" THEN {part.a}
    ELSE {}

parse_frames(frames_spec) ==
    SortedSeq(UNION {PartFrames(frames_spec[i]) : i \in 1 .. Len(frames_spec)})

\* "if chunk_size and index is not None"
Chunked(chunk_size, index) == chunk_size.given /\ chunk_size.v # 0 /\ index.given

\* The result is [err, start, end]: err is TRUE when the call raises ValueError
\* (no frames, or no chunk with that index).
select_task_range(frames_spec, chunk_size, index) ==
    LET frames == parse_frames(frames_spec)
        chunks == build_chunks(frames, chunk_size.v)
        matches == {i \in 1 .. Len(chunks) : chunks[i].index = index.v}
        match == chunks[CHOOSE i \in matches : \A j \in matches : i <= j]
    IN  IF frames = <<>> THEN [err |-> TRUE, start |-> 0, end |-> 0]
        ELSE IF Chunked(chunk_size, index)
        THEN IF matches = {} THEN [err |-> TRUE, start |-> 0, end |-> 0]
             ELSE [err |-> FALSE, start |-> match.start_frame, end |-> match.end_frame]
        ELSE [err |-> FALSE, start |-> frames[1], end |-> frames[Len(frames)]]

(***************************************************************************)
(* call_aerender.py: the affinity decision and the flags handed to         *)
(* stmpo_wrapper.py                                                        *)
(***************************************************************************)
\* Values of --disable_affinity tried ("unset": the option is not given).
AffinityOptions ==
    {"unset", "true", "True", " on ", "1", "yes", "false", "False", "0", "no", "off", ""}

\* str(v).strip().lower() on the strings tried.
StripLower(v) ==
    CASE v = "True" -> "true"
      [] v = "False" -> "false"
      [] v = " on " -> "on"
      [] OTHER -> v

str_to_bool(v) == StripLower(v) \in {"1", "true", "yes", "on"}

\* p.add_argument("--disable_affinity", default="true")
DisableAffinityArg(option) == IF option = "unset" THEN "true" ELSE option

\* main: the affinity flags appended to the wrapper's command line.
AffinityFlags(logical_cpus, option) ==
    LET auto_disable_affinity == logical_cpus > 64
        user_disable_affinity == str_to_bool(DisableAffinityArg(option))
        disable_affinity == user_disable_affinity \/ auto_disable_affinity
        enable_affinity == ~disable_affinity /\ ~auto_disable_affinity
    IN  IF disable_affinity THEN {"--disable_affinity"}
        ELSE IF enable_affinity THEN {"--enable_affinity"}
        ELSE {}

\* stmpo_wrapper.py parse_args: args.disable_affinity for these flags
\* (store_true with default False; --enable_affinity stores False).
WrapperDisableAffinity(flags) == "--disable_affinity" \in flags

(***************************************************************************)
(* auto_concurrency                                                        *)
(* RAM sizes are whole GiB; total_ram_gb * 0.8 // ram_per_proc_gb is       *)
(* computed in tenths.  logical = 0 and ram_gb = 0 stand for "unavailable".*)
(***************************************************************************)
auto_concurrency(a) ==
    LET logical == IF a.host.logical > 0 THEN a.host.logical ELSE 8
        per == IF a.ram_per_process_gb <= 0 THEN 32 ELSE a.ram_per_process_gb
        max_by_ram == IF a.host.ram_gb > 0
                      THEN Max2(1, Max2(10, 8 * a.host.ram_gb) \div (10 * per))
                      ELSE logical
        mfr == a.mfr_threads
        target == IF a.disable_mfr
                  THEN Max2(8, IF mfr # 0 THEN mfr ELSE 8)
                  ELSE Max2(16, IF mfr # 0 THEN mfr ELSE 16)
        base_by_threads == Max2(1, logical \div target)
        base0 == Min2(max_by_ram, base_by_threads)
        base1 == IF a.max_concurrency > 0 THEN Min2(base0, a.max_concurrency) ELSE base0
    IN  IF base1 < 1 THEN 1 ELSE base1

(***************************************************************************)
(* The orchestrator: inputs                                                *)
(***************************************************************************)
\* Command lines tried: frame ranges of -1, 0, 1 and 2 frames; one frame with
\* an explicit concurrency of 1, two frames with automatic concurrency (0),
\* which this host resolves to 2; both settings of kill_on_fail; an output
\* whose basename is or is not a single video file (.mov, .mp4, ...) with no
\* sequence pattern (the video case with the default kill_on_fail only);
\* --disable_affinity given.
JobArgs ==
    {a \in [start : {0},
            end : (0 - 2) .. 1,
            concurrency : {0, 1},
            max_concurrency : {2},
            kill_on_fail : BOOLEAN,
            out_video : BOOLEAN,
            spawn_delay : {2},
            ram_per_process_gb : {32},
            mfr_threads : {16},
            disable_mfr : {FALSE},
            disable_affinity : {TRUE},
            host : {[logical |-> 32, ram_gb |-> 128]}] :
        /\ a.end = 0 => a.concurrency = 1
        /\ a.end = 1 => a.concurrency = 0
        /\ a.out_video => a.kill_on_fail}

\* What the supervisor looks for in line.lower().
LineKinds == {"plain", "progress", "err14", "tif", "launching"}

\* "progress:" / "starting composition" / "finished composition" in lower_line
HasProgress(k) == k = "progress"
\* "error code: 14" / "unexpected error occurred while exporting" in lower_line
HasErr14(k) == k = "err14"
\* "could not be found" in lower_line and ".tif" in lower_line
HasTifMissing(k) == k = "tif"
\* "launching after effects" in last_log_line.lower()
HasLaunching(k) == k = "launching"

Detectors == {"signature", "zero_cpu", "silence", "shutdown"}

\* History of the heartbeats: quiet is the number of consecutive heartbeats, up
\* to the last one, at which some worker was running, every running worker
\* reported a CPU sample <= 0.01 and none had shown render progress; stuck
\* says that quiet has reached ZERO_CPU_STUCK_HEARTBEATS at some heartbeat;
\* global is the number of consecutive heartbeats, up to the last one, at
\* which some worker was running without render progress and every such
\* worker reported a CPU sample <= 0.01; global_sampled is the same count
\* when the workers whose CPU could not be read are left aside (at least one
\* could be read).
\* History of the spawn loop: affinity holds what the calls of apply_affinity
\* returned, in the order of the calls (<<>> for None); planned holds, per
\* worker spawned, the value of aff at its spawn (<<>> for None).
NoHistory == [quiet |-> 0, stuck |-> FALSE, affinity |-> <<>>, global |-> 0,
              global_sampled |-> 0, planned |-> <<>>]

\* The files a run may hold in scratch, by name.
Files == 1 .. MaxFiles
NoFile == 0

\* offload_worker before it is looked at in detail: an empty scratch directory.
\* fs[f] is scratch file f (whether it exists, whether a child has it open for
\* writing, how often it was opened, its content as a version number), dest[f]
\* the content of the destination file (NoData: none).  pass is 0 in the scan
\* loop and 1..3 in the final passes; todo is what is left of the directory
\* listing of the scan, cur the file in hand, attempt the retry index, moved
\* the scan's count, okd the files whose stability check succeeded in this
\* scan; failedIn are the files whose check or move failed in this final pass,
\* lockedAll those for which that happened in every final pass so far.  scans
\* is the number of process_files calls that have returned, counted up to
\* lim.scans (that many or more), wait the timeout of the stop_event.wait in
\* which the scan loop is, in tenths of a second (0: it is not waiting).
NoData == 0 - 1
OffloadIdle ==
    [pc |-> "loop", pass |-> 0, todo |-> <<>>, cur |-> NoFile, attempt |-> 0, moved |-> 0,
     stop |-> FALSE,
     fs |-> [f \in Files |-> [exists |-> FALSE, open |-> FALSE, opens |-> 0, data |-> 0]],
     dest |-> [f \in Files |-> NoData],
     okd |-> {}, failedIn |-> {}, lockedAll |-> Files, scans |-> 0, wait |-> 0]

ChildIds == 1 .. Len(children)
IsRunning(p) == p \in ChildIds /\ ~children[p].exited      \* popen.poll() is None
RunningIds == {p \in ChildIds : IsRunning(p)}

\* All terminate requests sent to PID p.
TermTotal(p) ==
    termCount["signature"][p] + termCount["zero_cpu"][p]
        + termCount["silence"][p] + termCount["shutdown"][p]

\* termCount after detector d has sent one more request to each PID of S.
Requested(tc, d, S) ==
    [tc EXCEPT ![d] = [p \in Pids |-> IF p \in S THEN tc[d][p] + 1 ELSE tc[d][p]]]

(***************************************************************************)
(* Affinity                                                                *)
(***************************************************************************)
\* for cpu in affinity: ... if cpu_id in cleaned: continue; cleaned.append
RECURSIVE Dedupe(_, _)
Dedupe(seen, s) ==
    IF s = <<>> THEN seen
    ELSE Dedupe(IF \E i \in 1 .. Len(seen) : seen[i] = Head(s) THEN seen
                ELSE Append(seen, Head(s)),
                Tail(s))

\* What the operating system does with the cpu_affinity calls of one
\* apply_affinity: the first call succeeds; it raises WinError 87 and the
\* call with the fallback list succeeds; the first call raises something
\* else, or the fallback call raises too.
AffinityOutcomes == {"set", "fallback_set", "refused"}

\* apply_affinity: the list applied, <<>> for None.
apply_affinity(affinity, allowed_cpus, outcome) ==
    LET cleaned == Dedupe(<<>>, affinity)
        InAllowed(c) == \E i \in 1 .. Len(allowed_cpus) : allowed_cpus[i] = c
        strict == SelectSeq(cleaned, InAllowed)
        fallback == IF strict = <<>> THEN Dedupe(<<>>, allowed_cpus) ELSE strict
    IN  IF cleaned = <<>> THEN <<>>
        ELSE IF outcome = "set" THEN cleaned
        ELSE IF outcome = "fallback_set" /\ allowed_cpus # <<>> THEN fallback
        ELSE <<>>

\* main: affinities, empty unless affinity is enabled and the NUMA map of the
\* host (lim.numa) yields pools.
affinities ==
    IF args.disable_affinity THEN <<>>
    ELSE build_affinity_blocks(concurrency, lim.numa)

\* aff = affinities[i] if (affinities and i < len(affinities)) else None,
\* for the 1-based spawn index i.
AffinityOf(i) == IF i <= Len(affinities) THEN affinities[i] ELSE <<>>

(***************************************************************************)
(* main: setup, split, spawn loop                                          *)
(***************************************************************************)
\* The state after parse_args, for a command line of A in an environment of L.
InitWith(A, L) ==
    /\ call = [fn |-> "none"]
    /\ args \in A
    /\ lim \in L
    /\ pc = "start"
    /\ retpc = "none"
    /\ exitCode = NoExit
    /\ sigCount = 0
    /\ spawnFailed = FALSE
    /\ concurrency = 0
    /\ ranges = <<>>
    /\ iSpawn = 0
    /\ children = <<>>
    /\ pipe = [p \in Pids |-> <<>>]
    /\ written = 0
    /\ out_q = <<>>
    /\ log = <<>>
    /\ last_log_time = [p \in Pids |-> 0]
    /\ last_log_line = [p \in Pids |-> "none"]
    /\ render_progress = {}
    /\ child_failures = [p \in Pids |-> "none"]
    /\ stalled_pids = {}
    /\ zero_cpu_counts = [p \in Pids |-> 0]
    /\ zero_cpu_global_streak = 0
    /\ job_failed = FALSE
    /\ last_heartbeat = 0
    /\ now = 0
    /\ stop_children_event = FALSE
    /\ stop_offload_event = FALSE
    /\ offl = "none"
    /\ scratch = FALSE
    /\ termCount = [d \in Detectors |-> [p \in Pids |-> 0]]
    /\ hist = NoHistory
    /\ ofl = OffloadIdle

\* requested = args.concurrency if args.concurrency >= 1 else auto_concurrency(...)
\* concurrency = min(requested, total_frames)
ChosenConcurrency(a) ==
    LET requested == IF a.concurrency >= 1 THEN a.concurrency ELSE auto_concurrency(a)
        total_frames == a.end - a.start + 1
    IN  Min2(requested, total_frames)

\* main up to the start of the offloader thread.  resolve_aerender_path and
\* the scratch mkdir are the only exits here (both sys.exit(1)); nothing looks
\* at the frame range or at the output's extension.
Setup ==
    /\ pc = "start"
    /\ \/ /\ pc' = "exited"
          /\ exitCode' = 1
          /\ UNCHANGED <<concurrency, offl, scratch>>
       \/ /\ scratch' = TRUE
          /\ concurrency' = ChosenConcurrency(args)
          /\ offl' = "scan"
          /\ pc' = "split"
          /\ UNCHANGED exitCode
    /\ UNCHANGED <<call, hist, ofl, args, lim, retpc, sigCount, spawnFailed, ranges, iSpawn,
                   children, pipe, written, out_q, log, last_log_time, last_log_line,
                   render_progress, child_failures, stalled_pids, zero_cpu_counts,
                   zero_cpu_global_streak, job_failed, last_heartbeat, now,
                   stop_children_event, stop_offload_event, termCount>>

\* split_ranges, load_env_overrides, the spawn-plan log line, the signal
\* handlers.  An exception here (ZeroDivisionError in split_ranges or in the
\* spawn-plan line when ranges is empty, a malformed env file) is uncaught: the
\* main activity ends with a traceback while the non-daemon offloader thread,
\* which nothing tells to stop, keeps the process alive.
SplitAndPlan ==
    /\ pc = "split"
    /\ LET r == split_ranges(args.start, args.end, concurrency)
       IN  \/ /\ r.err \/ Len(r.ranges) = 0
              /\ pc' = "crashed"
              /\ UNCHANGED <<ranges, iSpawn>>
           \/ /\ ~r.err
              /\ pc' = "crashed"                 \* json.load raises in load_env_overrides
              /\ UNCHANGED <<ranges, iSpawn>>
           \/ /\ ~r.err /\ Len(r.ranges) > 0
              /\ ranges' = r.ranges
              /\ iSpawn' = 1
              /\ pc' = "spawn_check"
    /\ UNCHANGED <<call, hist, ofl, args, lim, retpc, exitCode, sigCount, spawnFailed, concurrency,
                   children, pipe, written, out_q, log, last_log_time, last_log_line,
                   render_progress, child_failures, stalled_pids, zero_cpu_counts,
                   zero_cpu_global_streak, job_failed, last_heartbeat, now,
                   stop_children_event, stop_offload_event, offl, scratch, termCount>>

\* cleanup_resources up to the join of the offloader thread: set the stop
\* event, terminate every child still running, stop the offloader.
CleanupBegin(ret) ==
    /\ stop_children_event' = TRUE
    /\ termCount' = Requested(termCount, "shutdown", RunningIds)
    /\ stop_offload_event' = TRUE
    /\ retpc' = ret
    /\ pc' = "cleanup_join"

\* offloader_thread.join() has returned (or is skipped: the thread is not alive).
OffloaderJoined_nowait == TRUE

OffloaderJoined == offl \in {"none", "done"}

\* cleanup_resources from the join on: the offloader has ended, the scratch
\* directory is removed; then the caller goes on (sys.exit(1) when the caller
\* is main, the interrupted statement when it is a signal handler).
CleanupJoin ==
    /\ pc = "cleanup_join"
    /\ OffloaderJoined
    /\ scratch' = FALSE
    /\ IF retpc = "exit1"
       THEN pc' = "exited" /\ exitCode' = 1
       ELSE pc' = retpc /\ UNCHANGED exitCode
    /\ retpc' = "none"
    /\ UNCHANGED <<call, hist, ofl, args, lim, sigCount, spawnFailed, concurrency, ranges, iSpawn,
                   children, pipe, written, out_q, log, last_log_time, last_log_line,
                   render_progress, child_failures, stalled_pids, zero_cpu_counts,
                   zero_cpu_global_streak, job_failed, last_heartbeat, now,
                   stop_children_event, stop_offload_event, offl, termCount>>

\* Positions of main at which the handlers are installed and main is not
\* itself inside cleanup_resources.
SignalPcs == {"spawn_check", "spawn_popen", "drain", "heartbeat", "check", "final_join"}

\* SIGINT / SIGTERM: the handler is cleanup_resources(), run on the main
\* activity, which afterwards resumes where it was interrupted.
Signal ==
    /\ pc \in SignalPcs
    /\ sigCount < lim.signals
    /\ sigCount' = sigCount + 1
    /\ CleanupBegin(pc)
    /\ UNCHANGED <<call, hist, ofl, args, lim, exitCode, spawnFailed, concurrency, ranges, iSpawn,
                   children, pipe, written, out_q, log, last_log_time, last_log_line,
                   render_progress, child_failures, stalled_pids, zero_cpu_counts,
                   zero_cpu_global_streak, job_failed, last_heartbeat, now, offl, scratch>>

\* build_aerender_cmd: the -s, -e and -mfr arguments of the command line.
build_aerender_cmd(a, s, e) ==
    [s |-> s, e |-> e, mfr |-> IF a.disable_mfr THEN "OFF" ELSE "ON"]

\* if i > 0 and args.spawn_delay > 0: time.sleep(args.spawn_delay), for the
\* 1-based spawn index i: the seconds slept before spawn i.
SpawnSleep_never(i, spawn_delay) == 0

SpawnSleep(i, spawn_delay) == IF i > 1 /\ spawn_delay > 0 THEN spawn_delay ELSE 0

\* Head of the spawn loop: the stop check and the spawn_delay sleep.
SpawnCheck ==
    /\ pc = "spawn_check"
    /\ IF iSpawn > Len(ranges) \/ stop_children_event
       THEN /\ pc' = "drain"
            /\ last_heartbeat' = now
            /\ UNCHANGED now
       ELSE /\ pc' = "spawn_popen"
            /\ now' = now + SpawnSleep(iSpawn, args.spawn_delay)
            /\ UNCHANGED last_heartbeat
    /\ UNCHANGED <<call, hist, ofl, args, lim, retpc, exitCode, sigCount, spawnFailed, concurrency,
                   ranges, iSpawn, children, pipe, written, out_q, log, last_log_time,
                   last_log_line, render_progress, child_failures, stalled_pids,
                   zero_cpu_counts, zero_cpu_global_streak, job_failed,
                   stop_children_event, stop_offload_event, offl, scratch, termCount>>

\* Body of the spawn loop: Popen, apply_affinity when the plan has a block for
\* this worker, psutil handle (it may fail to attach), reader thread,
\* children.append, last_log_time; or Popen raises and main runs
\* cleanup_resources() and sys.exit(1).
SpawnPopen ==
    /\ pc = "spawn_popen"
    /\ \/ /\ IF AffinityOf(iSpawn) # <<>>
             THEN \E outcome \in AffinityOutcomes :
                      hist' = [hist EXCEPT !.affinity =
                                  Append(@, apply_affinity(AffinityOf(iSpawn),
                                                           lim.allowed, outcome)),
                                           !.planned = Append(@, AffinityOf(iSpawn))]
             ELSE hist' = [hist EXCEPT !.planned = Append(@, <<>>)]
          /\ children' = Append(children,
                                [frame_range |-> ranges[iSpawn], exited |-> FALSE, rc |-> 0,
                                 cmd |-> build_aerender_cmd(args, ranges[iSpawn][1],
                                                            ranges[iSpawn][2]),
                                 start_time |-> now, psutil_proc |-> lim.psutil[iSpawn]])
          /\ last_log_time' = [last_log_time EXCEPT ![Len(children) + 1] = now]
          /\ iSpawn' = iSpawn + 1
          /\ pc' = "spawn_check"
          /\ UNCHANGED <<retpc, spawnFailed, stop_children_event, stop_offload_event,
                         termCount>>
       \/ /\ spawnFailed' = TRUE
          /\ CleanupBegin("exit1")
          /\ UNCHANGED <<hist, children, last_log_time, iSpawn>>
    /\ UNCHANGED <<call, ofl, args, lim, exitCode, sigCount, concurrency, ranges, pipe,
                   written, out_q, log, last_log_line, render_progress, child_failures,
                   stalled_pids, zero_cpu_counts, zero_cpu_global_streak, job_failed,
                   last_heartbeat, now, offl, scratch>>

(***************************************************************************)
(* main: monitor loop                                                      *)
(***************************************************************************)
\* PIDs with a line in q.
QueuePids(q) == {q[i][1] : i \in 1 .. Len(q)}
\* The last line of PID p in q.
LastLineOf(q, p) ==
    LET idx == {i \in 1 .. Len(q) : q[i][1] = p}
    IN  q[CHOOSE i \in idx : \A j \in idx : j <= i][2]

\* The lines of one drain that the failure-signature and render-progress
\* tests see: the line returned by the blocking out_q.get().  The lines taken
\* by the get_nowait() loop are logged and time-stamped only.
InspectedLines(q) == IF q = <<>> THEN <<>> ELSE <<Head(q)>>

\* The reason a line puts into child_failures for a PID that has none yet
\* ("none": no signature).  The .tif test comes second and overwrites.
SignatureReason(k) ==
    IF HasTifMissing(k) THEN "Rendered frame missing on disk"
    ELSE IF HasErr14(k) THEN "After Effects Error Code 14 detected"
    ELSE "none"

\* The psutil.Process(pid).terminate() calls of the signature tests for one
\* inspected line <<pid, k>>: one per matching test, to that PID only.
SignatureTargets_siblings(pid, k) ==
    IF child_failures[pid] = "none" /\ SignatureReason(k) # "none" THEN RunningIds \cup {pid} ELSE {}

SignatureTargets(pid, k) ==
    IF child_failures[pid] = "none" /\ SignatureReason(k) # "none" THEN {pid} ELSE {}

\* Drain Logs: one blocking get (inspected), then everything else that is in
\* the queue (not inspected).
Drain ==
    /\ pc = "drain"
    /\ pc' = "heartbeat"
    /\ IF out_q = <<>>
       THEN UNCHANGED <<out_q, log, last_log_time, last_log_line, render_progress,
                        child_failures, termCount>>
       ELSE LET first == InspectedLines(out_q)[1]
                pid == first[1]
                k == first[2]
            IN  /\ out_q' = <<>>
                /\ log' = log \o out_q
                /\ last_log_time' = [p \in Pids |->
                        IF p \in QueuePids(out_q) THEN now ELSE last_log_time[p]]
                /\ last_log_line' = [p \in Pids |->
                        IF p \in QueuePids(out_q) THEN LastLineOf(out_q, p)
                        ELSE last_log_line[p]]
                /\ render_progress' =
                        IF pid \notin render_progress /\ HasProgress(k)
                        THEN render_progress \cup {pid} ELSE render_progress
                /\ child_failures' =
                        IF child_failures[pid] = "none" /\ SignatureReason(k) # "none"
                        THEN [child_failures EXCEPT ![pid] = SignatureReason(k)]
                        ELSE child_failures
                /\ termCount' = Requested(termCount, "signature", SignatureTargets(pid, k))
    /\ UNCHANGED <<call, hist, ofl, args, lim, retpc, exitCode, sigCount, spawnFailed, concurrency,
                   ranges, iSpawn, children, pipe, written, stalled_pids, zero_cpu_counts,
                   zero_cpu_global_streak, job_failed, last_heartbeat, now,
                   stop_children_event, stop_offload_event, offl, scratch>>

\* Detect no log output: last_log = last_log_time.get(pid, ch.start_time);
\* state == "running" and now - last_log >= LOG_SILENCE_TIMEOUT
SilentTooLong(p) ==
    IsRunning(p) /\ now - last_log_time[p] >= LOG_SILENCE_TIMEOUT

\* for stalled_pid in stalled_children: if stalled_pid in stalled_pids: continue
NewlyStalled_repeat == {p \in ChildIds : SilentTooLong(p)}

NewlyStalled == {p \in ChildIds : SilentTooLong(p)} \ stalled_pids

\* pending_children = running children with no render progress seen
PendingChildren == {p \in RunningIds : p \notin render_progress}

MinStart(S) == CHOOSE t \in {children[p].start_time : p \in S} :
                    \A p \in S : t <= children[p].start_time

\* The CPU samples one heartbeat can take: "none" when the child has no
\* psutil handle or the read raises (cpu stays None), else <= 0.01 ("zero") or
\* more.  The sample of a child that has exited is never used.
CpuSamples ==
    {c \in [ChildIds -> {"none", "zero", "busy"}] :
        \A p \in ChildIds : (~children[p].psutil_proc \/ children[p].exited) => c[p] = "none"}

\* if prolonged_zero_cpu and long_runtime and (launching_only or no_progress)
StalledForGood_launchOnly(prolonged_zero_cpu, long_runtime, launching_only, no_progress) ==
    prolonged_zero_cpu /\ long_runtime /\ launching_only

StalledForGood(prolonged_zero_cpu, long_runtime, launching_only, no_progress) ==
    prolonged_zero_cpu /\ long_runtime /\ (launching_only \/ no_progress)

\* zero_cpu_global_streak += 1 when the zero-CPU test of the heartbeat holds,
\* else zero_cpu_global_streak = 0.
NextStreak_keep(allZero, streak) == IF allZero THEN streak + 1 ELSE streak

NextStreak(allZero, streak) == IF allZero THEN streak + 1 ELSE 0

\* The history after a heartbeat that took the samples cpu.
Observe(cpu) ==
    LET quietNow == /\ RunningIds # {}
                    /\ \A p \in RunningIds : cpu[p] = "zero" /\ p \notin render_progress
        q == IF quietNow THEN Min2(hist.quiet + 1, ZERO_CPU_STUCK_HEARTBEATS) ELSE 0
        globalNow == /\ PendingChildren # {}
                     /\ \A p \in PendingChildren : cpu[p] = "zero"
        g == IF globalNow THEN Min2(hist.global + 1, ZERO_CPU_STUCK_HEARTBEATS) ELSE 0
        sampledNow == /\ \E p \in PendingChildren : cpu[p] # "none"
                      /\ \A p \in PendingChildren : cpu[p] \in {"zero", "none"}
        gs == IF sampledNow THEN Min2(hist.global_sampled + 1, ZERO_CPU_STUCK_HEARTBEATS)
              ELSE 0
    IN  [hist EXCEPT !.quiet = q, !.stuck = hist.stuck \/ q >= ZERO_CPU_STUCK_HEARTBEATS,
                     !.global = g, !.global_sampled = gs]

\* The heartbeat block, when HEARTBEAT_SECONDS have passed since the last one.
\* refused are the stalled workers for which psutil.Process(pid).terminate()
\* raises: the except clause skips the child_failures assignment for them.
Heartbeat ==
    /\ pc = "heartbeat"
    /\ pc' = "check"
    /\ IF now - last_heartbeat < HEARTBEAT_SECONDS
       THEN UNCHANGED <<zero_cpu_counts, zero_cpu_global_streak, child_failures,
                        stalled_pids, last_heartbeat, termCount, hist>>
       ELSE \E cpu \in CpuSamples, refused \in SUBSET RunningIds :
            LET sampled == {p \in RunningIds : cpu[p] # "none"}
                counted == {p \in sampled : p \notin render_progress}  \* running_cpu_zero
                zc == [p \in Pids |->
                        IF p \in sampled
                        THEN IF p \in counted /\ cpu[p] = "zero"
                             THEN zero_cpu_counts[p] + 1 ELSE 0
                        ELSE zero_cpu_counts[p]]
                allZero == /\ PendingChildren # {}
                           /\ counted # {}
                           /\ \A p \in counted : cpu[p] = "zero"
                streak == NextStreak(allZero, zero_cpu_global_streak)
                launching_only == \A p \in PendingChildren : HasLaunching(last_log_line[p])
                prolonged_zero_cpu == streak >= ZERO_CPU_STUCK_HEARTBEATS
                long_runtime == now - MinStart(PendingChildren)
                                    >= ZERO_CPU_STUCK_HEARTBEATS * HEARTBEAT_SECONDS
                no_progress == \A p \in PendingChildren : zc[p] >= ZERO_CPU_STUCK_HEARTBEATS
                killed == IF allZero /\ StalledForGood(prolonged_zero_cpu, long_runtime,
                                                       launching_only, no_progress)
                          THEN PendingChildren ELSE {}
                reason == IF launching_only THEN "Stuck at launch (zero CPU heartbeats)"
                          ELSE "Zero CPU with no render progress"
            IN  /\ refused \subseteq killed
                /\ zero_cpu_counts' = zc
                /\ zero_cpu_global_streak' = streak
                /\ child_failures' = [p \in Pids |->
                        IF p \in killed \ refused THEN reason ELSE child_failures[p]]
                /\ hist' = Observe(cpu)
                /\ stalled_pids' = stalled_pids \cup NewlyStalled
                /\ termCount' = Requested(Requested(termCount, "zero_cpu", killed),
                                          "silence", NewlyStalled)
                /\ last_heartbeat' = now
    /\ UNCHANGED <<call, ofl, args, lim, retpc, exitCode, sigCount, spawnFailed, concurrency,
                   ranges, iSpawn, children, pipe, written, out_q, log, last_log_time,
                   last_log_line, render_progress, job_failed, now,
                   stop_children_event, stop_offload_event, offl, scratch>>

\* Check Status: all_done, any_failed
AllDone == \A p \in ChildIds : children[p].exited

AnyFailed_rcOnly == \E p \in ChildIds : children[p].exited /\ children[p].rc # 0

AnyFailed ==
    \E p \in ChildIds :
        children[p].exited /\ (child_failures[p] # "none" \/ children[p].rc # 0)

\* What makes the supervisor give up on workers that are still running: only
\* stop_children_event; args.kill_on_fail selects a log message, nothing else.
AbortRunning_killSiblings == stop_children_event \/ (AnyFailed /\ ~args.kill_on_fail)

AbortRunning == stop_children_event

\* Check Status, the exit decisions that follow it and the end of the
\* iteration: stop_children_event.wait(idle_wait), after which the loop goes
\* round at once or with the clock at the next heartbeat; or, when all workers
\* are done and none failed, the break and stop_offload_event.set().
CheckStatus ==
    /\ pc = "check"
    /\ job_failed' = (job_failed \/ AnyFailed)
    /\ IF AllDone
       THEN IF job_failed'
            THEN CleanupBegin("exit1") /\ UNCHANGED now
            ELSE /\ pc' = "final_join"
                 /\ stop_offload_event' = TRUE
                 /\ UNCHANGED <<retpc, stop_children_event, termCount, now>>
       ELSE IF AbortRunning
            THEN CleanupBegin("exit1") /\ UNCHANGED now
            ELSE /\ pc' = "drain"
                 /\ \E d \in {0, HEARTBEAT_SECONDS} :
                        /\ now + d <= lim.horizon
                        /\ now' = now + d
                 /\ UNCHANGED <<retpc, stop_children_event, stop_offload_event, termCount>>
    /\ UNCHANGED <<call, hist, ofl, args, lim, exitCode, sigCount, spawnFailed, concurrency, ranges,
                   iSpawn, children, pipe, written, out_q, log, last_log_time, last_log_line,
                   render_progress, child_failures, stalled_pids, zero_cpu_counts,
                   zero_cpu_global_streak, last_heartbeat, offl, scratch>>

\* offloader_thread.join(); shutil.rmtree(local_scratch_dir); sys.exit(0)
FinalJoin ==
    /\ pc = "final_join"
    /\ OffloaderJoined
    /\ scratch' = FALSE
    /\ pc' = "exited"
    /\ exitCode' = 0
    /\ UNCHANGED <<call, hist, ofl, args, lim, retpc, sigCount, spawnFailed, concurrency,
                   ranges, iSpawn, children, pipe, written, out_q, log, last_log_time,
                   last_log_line, render_progress, child_failures, stalled_pids,
                   zero_cpu_counts, zero_cpu_global_streak, job_failed, last_heartbeat, now,
                   stop_children_event, stop_offload_event, offl, termCount>>

(***************************************************************************)
(* Environment: renderer children, reader activities, offloader activity   *)
(***************************************************************************)
ProcessAlive == pc \notin {"exited", "crashed", "idle"}

\* A running child writes one line to its stdout pipe.  A line is its kind and
\* its serial number among all lines written in the run.
ChildWrite(p) ==
    /\ ProcessAlive
    /\ IsRunning(p)
    /\ written < lim.lines
    /\ \E k \in lim.kinds : pipe' = [pipe EXCEPT ![p] = Append(@, <<k, written + 1>>)]
    /\ written' = written + 1
    /\ UNCHANGED <<call, hist, ofl, args, lim, pc, retpc, exitCode, sigCount, spawnFailed,
                   concurrency, ranges, iSpawn, children, out_q, log, last_log_time,
                   last_log_line, render_progress, child_failures, stalled_pids,
                   zero_cpu_counts, zero_cpu_global_streak, job_failed, last_heartbeat, now,
                   stop_children_event, stop_offload_event, offl, scratch, termCount>>

\* out_q.put(item)
QueuePut_front(q, item) == <<item>> \o q

QueuePut(q, item) == Append(q, item)

\* stream_reader of child p: readline, out_q.put((pid, tag, line)).  A queue
\* item is <<pid, kind of the line, serial number of the line>>.
StreamReader(p) ==
    /\ ProcessAlive
    /\ p \in ChildIds
    /\ pipe[p] # <<>>
    /\ out_q' = QueuePut(out_q, <<p, Head(pipe[p])[1], Head(pipe[p])[2]>>)
    /\ pipe' = [pipe EXCEPT ![p] = Tail(@)]
    /\ UNCHANGED <<call, hist, ofl, args, lim, pc, retpc, exitCode, sigCount, spawnFailed,
                   concurrency, ranges, iSpawn, children, written, log, last_log_time,
                   last_log_line, render_progress, child_failures, stalled_pids,
                   zero_cpu_counts, zero_cpu_global_streak, job_failed, last_heartbeat, now,
                   stop_children_event, stop_offload_event, offl, scratch, termCount>>

\* A running child ends, by itself or because it was terminated, with return
\* code 0 or not 0.
ChildExit(p) ==
    /\ ProcessAlive
    /\ IsRunning(p)
    /\ \E rc \in {0, 1} : children' = [children EXCEPT ![p].exited = TRUE, ![p].rc = rc]
    /\ UNCHANGED <<call, hist, ofl, args, lim, pc, retpc, exitCode, sigCount, spawnFailed,
                   concurrency, ranges, iSpawn, pipe, written, out_q, log, last_log_time,
                   last_log_line, render_progress, child_failures, stalled_pids,
                   zero_cpu_counts, zero_cpu_global_streak, job_failed, last_heartbeat, now,
                   stop_children_event, stop_offload_event, offl, scratch, termCount>>

\* offload_worker: the scan loop ends when stop_event is set ...
OffloadStop ==
    /\ offl = "scan"
    /\ stop_offload_event
    /\ offl' = "final"
    /\ UNCHANGED <<call, hist, ofl, args, lim, pc, retpc, exitCode, sigCount, spawnFailed,
                   concurrency, ranges, iSpawn, children, pipe, written, out_q, log,
                   last_log_time, last_log_line, render_progress, child_failures,
                   stalled_pids, zero_cpu_counts, zero_cpu_global_streak, job_failed,
                   last_heartbeat, now, stop_children_event, stop_offload_event, scratch,
                   termCount>>

\* ... and the activity ends after its final passes.
OffloadFinish ==
    /\ offl = "final"
    /\ offl' = "done"
    /\ UNCHANGED <<call, hist, ofl, args, lim, pc, retpc, exitCode, sigCount, spawnFailed,
                   concurrency, ranges, iSpawn, children, pipe, written, out_q, log,
                   last_log_time, last_log_line, render_progress, child_failures,
                   stalled_pids, zero_cpu_counts, zero_cpu_global_streak, job_failed,
                   last_heartbeat, now, stop_children_event, stop_offload_event, scratch,
                   termCount>>

Next ==
    \/ Setup
    \/ SplitAndPlan
    \/ SpawnCheck
    \/ SpawnPopen
    \/ CleanupJoin
    \/ Drain
    \/ Heartbeat
    \/ CheckStatus
    \/ FinalJoin
    \/ \E p \in Pids : ChildWrite(p)
    \/ \E p \in Pids : StreamReader(p)
    \/ \E p \in Pids : ChildExit(p)
    \/ OffloadStop
    \/ OffloadFinish

\* Runs that receive no signal: every command line of JobArgs; the children
\* write up to MaxLines lines of any kind but "launching"; psutil attaches to
\* every child; the clock reaches the first heartbeat.
Init ==
    InitWith(JobArgs,
             [horizon : {MaxTime}, lines : {MaxLines}, signals : {0},
              psutil : {[p \in Pids |-> TRUE]},
              kinds : {LineKinds \ {"launching"}}])

Spec == Init /\ [][Next]_vars

\* Runs that may receive SIGINT or SIGTERM once the handlers are installed.
InitSignal ==
    InitWith(JobArgs,
             [horizon : {MaxTime}, lines : {MaxLinesSignal}, signals : {MaxSignals},
              psutil : {[p \in Pids |-> TRUE]},
              kinds : {{"plain", "err14"}}])

NextSignal == Next \/ Signal

SpecSignal == InitSignal /\ [][NextSignal]_vars

\* Long quiet runs: one or two workers, no signal, at most MaxLinesSilence
\* plain lines, the clock running past LOG_SILENCE_TIMEOUT; psutil attaches to
\* no child, so that the log-silence detector is the only one that can act.
InitSilence ==
    InitWith({a \in JobArgs : a.end >= 0 /\ a.kill_on_fail /\ ~a.out_video},
             [horizon : {MaxTimeSilence}, lines : {MaxLinesSilence}, signals : {0},
              psutil : {[p \in Pids |-> FALSE]},
              kinds : {{"plain"}}])

SpecSilence == InitSilence /\ [][Next]_vars

\* Runs through four heartbeats with psutil attached to every child: one or
\* two workers that write at most MaxLinesZeroCpu lines, each a render-progress
\* line.
InitZeroCpu ==
    InitWith({a \in JobArgs : a.end >= 0 /\ a.kill_on_fail /\ ~a.out_video},
             [horizon : {MaxTimeZeroCpu}, lines : {MaxLinesZeroCpu}, signals : {0},
              psutil : {[p \in Pids |-> TRUE]},
              kinds : {{"progress"}}])

SpecZeroCpu == InitZeroCpu /\ [][Next]_vars

\* Runs through four heartbeats of a single worker that writes up to
\* MaxLinesProgress lines, plain or render progress, with psutil attached.
InitProgress ==
    InitWith({a \in JobArgs : a.end = 0 /\ a.kill_on_fail /\ ~a.out_video},
             [horizon : {MaxTimeZeroCpu}, lines : {MaxLinesProgress}, signals : {0},
              psutil : {[p \in Pids |-> TRUE]},
              kinds : {{"plain", "progress"}}])

SpecProgress == InitProgress /\ [][Next]_vars

\* Runs with affinity enabled on a host whose NUMA map has two pools of two
\* CPUs and whose orchestrator process is allowed the first pool: one or two
\* workers that write at most MaxLinesAffinity lines, no signal.
InitAffinity ==
    InitWith({[a EXCEPT !.disable_affinity = FALSE] :
                  a \in {b \in JobArgs : b.end >= 0 /\ b.kill_on_fail /\ ~b.out_video}},
             [horizon : {MaxTime}, lines : {MaxLinesAffinity}, signals : {0},
              psutil : {[p \in Pids |-> TRUE]},
              kinds : {{"plain", "err14"}},
              numa : {<<<<0, 1>>, <<2, 3>>>>},
              allowed : {<<0, 1>>}])

SpecAffinity == InitAffinity /\ [][Next]_vars

\* The main activity has not started: the state in which a single function or
\* the offloader alone is looked at.
MainIdle ==
    /\ args = [start |-> 0]
    /\ pc = "idle"
    /\ retpc = "idle"
    /\ exitCode = NoExit
    /\ sigCount = 0
    /\ spawnFailed = FALSE
    /\ concurrency = 0
    /\ ranges = <<>>
    /\ iSpawn = 0
    /\ children = <<>>
    /\ pipe = [p \in Pids |-> <<>>]
    /\ written = 0
    /\ out_q = <<>>
    /\ log = <<>>
    /\ last_log_time = [p \in Pids |-> 0]
    /\ last_log_line = [p \in Pids |-> "none"]
    /\ render_progress = {}
    /\ child_failures = [p \in Pids |-> "none"]
    /\ stalled_pids = {}
    /\ zero_cpu_counts = [p \in Pids |-> 0]
    /\ zero_cpu_global_streak = 0
    /\ job_failed = FALSE
    /\ last_heartbeat = 0
    /\ now = 0
    /\ stop_children_event = FALSE
    /\ stop_offload_event = FALSE
    /\ offl = "none"
    /\ scratch = FALSE
    /\ termCount = [d \in Detectors |-> [p \in Pids |-> 0]]
    /\ hist = NoHistory

(***************************************************************************)
(* offload_worker in detail, one step per file-system call, with the       *)
(* renderer children as writers of the scratch files.  The main activity   *)
(* is left out (MainIdle) but for its stop_offload_event.set().            *)
(* File-system calls behave as on Windows, the platform of                 *)
(* LOCAL_SCRATCH_ROOT: renaming or removing a file that a child holds open *)
(* for writing raises PermissionError; copying it succeeds or raises,      *)
(* depending on the sharing mode the child opened it with.                 *)
(***************************************************************************)
restVars == <<call, args, lim, pc, retpc, exitCode, sigCount, spawnFailed,
              concurrency, ranges, iSpawn, children, pipe, written, out_q, log,
              last_log_time, last_log_line, render_progress, child_failures,
              stalled_pids, zero_cpu_counts, zero_cpu_global_streak, job_failed,
              last_heartbeat, now, stop_children_event, stop_offload_event,
              offl, scratch, termCount, hist>>

OffloadRuns == call.fn = "offload" /\ ofl.pc # "done"

\* local_dir.glob("*"): the files in scratch, here in ascending order.
RECURSIVE Listing(_, _)
Listing(fs, f) ==
    IF f > MaxFiles THEN <<>>
    ELSE (IF fs[f].exists THEN <<f>> ELSE <<>>) \o Listing(fs, f + 1)

\* is_file_stable: the file exists and filepath.rename(filepath) succeeds.
is_file_stable(fs, f) == fs[f].exists /\ ~fs[f].open

\* if moved >= max_files: break
BurstReached_never(moved, max_files) == FALSE

BurstReached(moved, max_files) == moved >= max_files

\* The start of process_files(max_files) in pass p.
ScanBegin(o, p) ==
    [o EXCEPT !.pc = "iter", !.pass = p, !.todo = Listing(o.fs, 1), !.cur = NoFile,
              !.attempt = 0, !.moved = 0, !.okd = {}, !.failedIn = {}, !.wait = 0]

\* while not stop_event.is_set(): moved = process_files(OFFLOAD_BURST_LIMIT);
\* and, once the stop event is seen, the first of the final passes.
OffloadScanStart ==
    /\ OffloadRuns
    /\ ofl.pc = "loop"
    /\ ofl' = ScanBegin(ofl, IF ofl.stop THEN 1 ELSE 0)
    /\ UNCHANGED restVars

\* The file in hand could not be moved in this scan.
GiveUp(o) ==
    [o EXCEPT !.pc = "iter", !.cur = NoFile,
              !.failedIn = IF o.pass > 0 THEN @ \cup {o.cur} ELSE @]

\* except PermissionError: retry the copy after 0.5 s, twice at most.
Retry_thrice(o) ==
    IF o.attempt < 3 THEN [o EXCEPT !.pc = "copy", !.attempt = @ + 1] ELSE GiveUp(o)

Retry(o) ==
    IF o.attempt < 2 THEN [o EXCEPT !.pc = "copy", !.attempt = @ + 1] ELSE GiveUp(o)

\* One iteration of "for local_file in local_dir.glob('*')" up to the copy.
OffloadNextFile ==
    /\ OffloadRuns
    /\ ofl.pc = "iter"
    /\ IF BurstReached(ofl.moved, OFFLOAD_BURST_LIMIT) \/ ofl.todo = <<>>
       THEN ofl' = [ofl EXCEPT !.pc = "scan_end"]
       ELSE LET f == Head(ofl.todo)
            IN  IF is_file_stable(ofl.fs, f)
                THEN ofl' = [ofl EXCEPT !.pc = "copy", !.todo = Tail(@), !.cur = f,
                                        !.attempt = 0, !.okd = @ \cup {f}]
                ELSE ofl' = [ofl EXCEPT !.todo = Tail(@),
                                        !.failedIn = IF ofl.pass > 0 /\ ofl.fs[f].exists
                                                     THEN @ \cup {f} ELSE @]
    /\ UNCHANGED restVars

\* shutil.copy2(local_file, dest_path)
OffloadCopy ==
    /\ OffloadRuns
    /\ ofl.pc = "copy"
    /\ \/ ofl' = [ofl EXCEPT !.pc = "remove", !.dest[ofl.cur] = ofl.fs[ofl.cur].data]
       \/ ofl.fs[ofl.cur].open /\ ofl' = Retry(ofl)           \* PermissionError
       \/ lim.nas /\ ofl' = GiveUp(ofl)                       \* any other exception
    /\ UNCHANGED restVars

\* os.remove(local_file); moved += 1
OffloadRemove ==
    /\ OffloadRuns
    /\ ofl.pc = "remove"
    /\ IF ofl.fs[ofl.cur].open
       THEN ofl' = Retry(ofl)                                 \* PermissionError
       ELSE ofl' = [ofl EXCEPT !.pc = "iter", !.cur = NoFile, !.moved = @ + 1,
                               !.fs[ofl.cur].exists = FALSE]
    /\ UNCHANGED restVars

\* if moved: stop_event.wait(OFFLOAD_SCAN_INTERVAL)
\* else: stop_event.wait(OFFLOAD_IDLE_INTERVAL)
ScanWait_short(moved) == OFFLOAD_SCAN_INTERVAL

ScanWait(moved) == IF moved > 0 THEN OFFLOAD_SCAN_INTERVAL ELSE OFFLOAD_IDLE_INTERVAL

\* The end of a scan: back to the loop head (after stop_event.wait), or, in
\* the final passes, "if not any(local_dir.glob('*')): break", the next pass
\* after a second, and the end of the activity after the third.
OffloadScanEnd ==
    /\ OffloadRuns
    /\ ofl.pc = "scan_end"
    /\ IF ofl.pass = 0
       THEN ofl' = [ofl EXCEPT !.pc = "loop", !.scans = Min2(@ + 1, lim.scans),
                               !.wait = ScanWait(ofl.moved)]
       ELSE LET o == [ofl EXCEPT !.lockedAll = @ \cap ofl.failedIn,
                                 !.scans = Min2(@ + 1, lim.scans)]
            IN  IF Listing(ofl.fs, 1) = <<>> \/ ofl.pass = 3
                THEN ofl' = [o EXCEPT !.pc = "done"]
                ELSE ofl' = ScanBegin(o, ofl.pass + 1)
    /\ UNCHANGED restVars

\* main: stop_offload_event.set()
OffloadTold ==
    /\ OffloadRuns
    /\ ~ofl.stop
    /\ ofl' = [ofl EXCEPT !.stop = TRUE]
    /\ UNCHANGED restVars

\* A child opens scratch file f for writing (creating it if need be).
FileOpen(f) ==
    /\ OffloadRuns
    /\ f <= lim.nfiles
    /\ ~ofl.fs[f].open
    /\ ofl.fs[f].opens < lim.opens
    /\ ofl' = [ofl EXCEPT !.fs[f].exists = TRUE, !.fs[f].open = TRUE, !.fs[f].opens = @ + 1]
    /\ UNCHANGED restVars

\* A child writes to a file it holds open.
FileWrite(f) ==
    /\ OffloadRuns
    /\ ofl.fs[f].open
    /\ ofl.fs[f].data < lim.maxdata
    /\ ofl' = [ofl EXCEPT !.fs[f].data = @ + 1]
    /\ UNCHANGED restVars

\* A child closes a file.
FileClose(f) ==
    /\ OffloadRuns
    /\ lim.opens > 0
    /\ ofl.fs[f].open
    /\ ofl' = [ofl EXCEPT !.fs[f].open = FALSE]
    /\ UNCHANGED restVars

OffloadSteps ==
    \/ OffloadScanStart
    \/ OffloadNextFile
    \/ OffloadCopy
    \/ OffloadRemove
    \/ OffloadScanEnd
    \/ OffloadTold

\* Scans of a backlog: n files are in scratch, written and closed, but for the
\* first k of them, which a child holds open throughout; nothing is written
\* any more.
Backlog(n, k) ==
    [OffloadIdle EXCEPT
        !.fs = [f \in Files |-> [exists |-> f <= n, open |-> f <= k, opens |-> 0,
                                 data |-> IF f <= n THEN 1 ELSE 0]]]

InitBurst ==
    /\ call = [fn |-> "offload"]
    /\ lim = [nfiles |-> 0, opens |-> 0, maxdata |-> 0, nas |-> FALSE, scans |-> MaxScans]
    /\ \E n \in 0 .. MaxFiles, k \in 0 .. MaxHeldOpen : k <= n /\ ofl = Backlog(n, k)
    /\ MainIdle

NextBurst == OffloadSteps

SpecBurst == InitBurst /\ [][NextBurst]_vars

\* The offloader beside children that write: up to MaxFilesRace files, each
\* opened up to MaxOpens times and written up to MaxData times; the
\* destination may fail.
InitOffload ==
    /\ call = [fn |-> "offload"]
    /\ lim = [nfiles |-> MaxFilesRace, opens |-> MaxOpens, maxdata |-> MaxData, nas |-> TRUE,
              scans |-> 0]
    /\ ofl = OffloadIdle
    /\ MainIdle

NextOffload ==
    \/ OffloadSteps
    \/ \E f \in Files : FileOpen(f)
    \/ \E f \in Files : FileWrite(f)
    \/ \E f \in Files : FileClose(f)

SpecOffload == InitOffload /\ [][NextOffload]_vars

\* main, 6. Final Sync, beside the offloader in detail: stop_offload_event.set()
\* is OffloadTold; offloader_thread.join() has returned;
\* shutil.rmtree(local_scratch_dir, ignore_errors=True) removes every scratch
\* file that no process holds open; sys.exit(0).
FinalSync ==
    /\ call.fn = "offload"
    /\ pc = "idle"
    /\ ofl.stop /\ ofl.pc = "done"
    /\ ofl' = [ofl EXCEPT !.fs = [f \in Files |->
                    [ofl.fs[f] EXCEPT !.exists = ofl.fs[f].exists /\ ofl.fs[f].open]]]
    /\ pc' = "exited"
    /\ exitCode' = 0
    /\ UNCHANGED <<call, args, lim, retpc, sigCount, spawnFailed, concurrency, ranges,
                   iSpawn, children, pipe, written, out_q, log, last_log_time,
                   last_log_line, render_progress, child_failures, stalled_pids,
                   zero_cpu_counts, zero_cpu_global_streak, job_failed, last_heartbeat,
                   now, stop_children_event, stop_offload_event, offl, scratch,
                   termCount, hist>>

\* The end of a job whose workers have all exited with return code 0: up to
\* MaxFiles rendered frames are in scratch, written and closed, when main
\* reaches the final sync.
InitFinalSync ==
    /\ call = [fn |-> "offload"]
    /\ lim = [nfiles |-> 0, opens |-> 0, maxdata |-> 0, nas |-> FALSE, scans |-> MaxScans]
    /\ \E n \in 0 .. MaxFiles : ofl = Backlog(n, 0)
    /\ MainIdle

NextFinalSync ==
    \/ OffloadSteps
    \/ FinalSync

SpecFinalSync == InitFinalSync /\ [][NextFinalSync]_vars

(***************************************************************************)
(* Pure-function harness: one call of split_ranges on bounded inputs.      *)
(***************************************************************************)
InitSplit ==
    /\ call \in [fn : {"split_ranges"},
                 start : (0 - 1) .. MaxSplitFrame,
                 end : (0 - 1) .. MaxSplitFrame,
                 parts : (0 - 1) .. MaxSplitParts,
                 done : {FALSE},
                 out : {[err |-> FALSE, ranges |-> <<>>]}]
    /\ lim = [horizon |-> 0, lines |-> 0, signals |-> 0, psutil |-> <<>>, kinds |-> {}]
    /\ ofl = OffloadIdle
    /\ MainIdle

CallSplit ==
    /\ call.fn = "split_ranges"
    /\ ~call.done
    /\ call' = [call EXCEPT !.done = TRUE,
                            !.out = split_ranges(call.start, call.end, call.parts)]
    /\ UNCHANGED mainVars

NextSplit == CallSplit

SpecSplit == InitSplit /\ [][NextSplit]_vars

\* One call of build_affinity_blocks on bounded inputs.
SeqsUpTo(S, n) == UNION {[1 .. m -> S] : m \in 0 .. n}

InitBlocks ==
    /\ call \in [fn : {"build_affinity_blocks"},
                 concurrency : (0 - 1) .. MaxBlocks,
                 pools : SeqsUpTo(SeqsUpTo(1 .. MaxCpuId, MaxPoolCpus), MaxPools),
                 done : {FALSE},
                 out : {<<>>}]
    /\ lim = [horizon |-> 0, lines |-> 0, signals |-> 0, psutil |-> <<>>, kinds |-> {}]
    /\ ofl = OffloadIdle
    /\ MainIdle

CallBlocks ==
    /\ call.fn = "build_affinity_blocks"
    /\ ~call.done
    /\ call' = [call EXCEPT !.done = TRUE,
                            !.out = build_affinity_blocks(call.concurrency, call.pools)]
    /\ UNCHANGED mainVars

NextBlocks == CallBlocks

SpecBlocks == InitBlocks /\ [][NextBlocks]_vars

\* One call of auto_concurrency (the concurrency hint is below 1) on hosts
\* of 0 (unavailable) to 128 logical CPUs, half or all of them physical
\* cores, and 0 (unavailable) to 256 GiB of RAM.
AutoArgs ==
    {a \in [concurrency : {0 - 1, 0},
            max_concurrency : {0, 2, 24, 48},
            ram_per_process_gb : {0, 10, 32},
            mfr_threads : {0, 1, 2, 4, 16, 32},
            disable_mfr : BOOLEAN,
            host : [logical : {0, 8, 16, 64, 128},
                    physical : {0, 4, 8, 16, 32, 64, 128},
                    ram_gb : {0, 16, 64, 256}]] :
        a.host.physical \in {a.host.logical, a.host.logical \div 2}}

InitAuto ==
    /\ call \in [fn : {"auto_concurrency"}, a : AutoArgs, done : {FALSE}, out : {0}]
    /\ lim = [horizon |-> 0, lines |-> 0, signals |-> 0, psutil |-> <<>>, kinds |-> {}]
    /\ ofl = OffloadIdle
    /\ MainIdle

CallAuto ==
    /\ call.fn = "auto_concurrency"
    /\ ~call.done
    /\ call' = [call EXCEPT !.done = TRUE, !.out = auto_concurrency(call.a)]
    /\ UNCHANGED mainVars

NextAuto == CallAuto

SpecAuto == InitAuto /\ [][NextAuto]_vars

\* One topology normalization, as main does it: load_numa_nodes on a map of
\* up to MaxPools entries of up to MaxPoolCpus values, then
\* numa_nodes_to_pools.
InitNuma ==
    /\ call \in [fn : {"numa_nodes_to_pools"},
                 data : SeqsUpTo([ok : BOOLEAN, cpus : SeqsUpTo(1 .. MaxCpuId, MaxPoolCpus)],
                                 MaxPools),
                 done : {FALSE},
                 out : {<<>>}]
    /\ lim = [horizon |-> 0, lines |-> 0, signals |-> 0, psutil |-> <<>>, kinds |-> {}]
    /\ ofl = OffloadIdle
    /\ MainIdle

CallNuma ==
    /\ call.fn = "numa_nodes_to_pools"
    /\ ~call.done
    /\ call' = [call EXCEPT !.done = TRUE,
                            !.out = numa_nodes_to_pools(load_numa_nodes(call.data))]
    /\ UNCHANGED mainVars

NextNuma == CallNuma

SpecNuma == InitNuma /\ [][NextNuma]_vars

\* One evaluation of the concurrency choice of main on bounded inputs: frame
\* ranges of 1..MaxPlanFrames frames, automatic (0) and explicit concurrency,
\* max_concurrency 0 and above, hosts whose CPU count or RAM size is or is
\* not available.
PlanArgs ==
    [start : {0},
     end : 0 .. MaxPlanFrames - 1,
     concurrency : 0 .. MaxPlanConcurrency,
     max_concurrency : 0 .. MaxPlanCap,
     ram_per_process_gb : {0, 32},
     mfr_threads : {0, 16, 32},
     disable_mfr : BOOLEAN,
     host : [logical : {0, 16, 64}, ram_gb : {0, 64, 256}]]

InitPlan ==
    /\ call \in [fn : {"concurrency"}, a : PlanArgs, done : {FALSE}, out : {0}]
    /\ lim = [horizon |-> 0, lines |-> 0, signals |-> 0, psutil |-> <<>>, kinds |-> {}]
    /\ ofl = OffloadIdle
    /\ MainIdle

CallPlan ==
    /\ call.fn = "concurrency"
    /\ ~call.done
    /\ call' = [call EXCEPT !.done = TRUE, !.out = ChosenConcurrency(call.a)]
    /\ UNCHANGED mainVars

NextPlan == CallPlan

SpecPlan == InitPlan /\ [][NextPlan]_vars

\* One call of build_chunks on the frames of a parsed frame specification:
\* any set of frames of 0..MaxChunkFrame, chunk sizes 0..MaxChunkSize.
InitChunks ==
    /\ call \in [fn : {"build_chunks"},
                 frames : {SortedSeq(S) : S \in SUBSET (0 .. MaxChunkFrame)},
                 chunk_size : 0 .. MaxChunkSize,
                 done : {FALSE},
                 out : {<<>>}]
    /\ lim = [horizon |-> 0, lines |-> 0, signals |-> 0, psutil |-> <<>>, kinds |-> {}]
    /\ ofl = OffloadIdle
    /\ MainIdle

CallChunks ==
    /\ call.fn = "build_chunks"
    /\ ~call.done
    /\ call' = [call EXCEPT !.done = TRUE,
                            !.out = build_chunks(call.frames, call.chunk_size)]
    /\ UNCHANGED mainVars

NextChunks == CallChunks

SpecChunks == InitChunks /\ [][NextChunks]_vars

\* One call of select_task_range, as main of call_aerender.py makes it: frames
\* specs of up to MaxTaskParts parts over the frames 0..MaxTaskFrame,
\* --chunk-size and --index absent or 0..MaxTaskChunk.
TaskParts ==
    {p \in [kind : {"empty", "one", "range"}, a : 0 .. MaxTaskFrame, b : 0 .. MaxTaskFrame] :
        /\ p.kind = "empty" => (p.a = 0 /\ p.b = 0)
        /\ p.kind = "one" => p.b = p.a}

OptionalInts == {[given |-> FALSE, v |-> 0]} \cup [given : {TRUE}, v : 0 .. MaxTaskChunk]

InitTask ==
    /\ call \in [fn : {"select_task_range"},
                 frames_spec : SeqsUpTo(TaskParts, MaxTaskParts),
                 chunk_size : OptionalInts,
                 index : OptionalInts,
                 done : {FALSE},
                 out : {[err |-> FALSE, start |-> 0, end |-> 0]}]
    /\ lim = [horizon |-> 0, lines |-> 0, signals |-> 0, psutil |-> <<>>, kinds |-> {}]
    /\ ofl = OffloadIdle
    /\ MainIdle

CallTask ==
    /\ call.fn = "select_task_range"
    /\ ~call.done
    /\ call' = [call EXCEPT !.done = TRUE,
                            !.out = select_task_range(call.frames_spec, call.chunk_size,
                                                      call.index)]
    /\ UNCHANGED mainVars

NextTask == CallTask

SpecTask == InitTask /\ [][NextTask]_vars

\* One affinity decision of call_aerender.py for a host's os.cpu_count()
\* (0: unavailable) and an operator's --disable_affinity.
InitLaunch ==
    /\ call \in [fn : {"call_aerender"},
                 logical_cpus : {0, 8, 63, 64, 65, 128},
                 option : AffinityOptions,
                 done : {FALSE},
                 out : {FALSE}]
    /\ lim = [horizon |-> 0, lines |-> 0, signals |-> 0, psutil |-> <<>>, kinds |-> {}]
    /\ ofl = OffloadIdle
    /\ MainIdle

\* out: the wrapper's args.disable_affinity.
CallLaunch ==
    /\ call.fn = "call_aerender"
    /\ ~call.done
    /\ call' = [call EXCEPT !.done = TRUE,
                            !.out = WrapperDisableAffinity(
                                        AffinityFlags(call.logical_cpus, call.option))]
    /\ UNCHANGED mainVars

NextLaunch == CallLaunch

SpecLaunch == InitLaunch /\ [][NextLaunch]_vars

\* The frames of the inclusive subrange r.
Frames(r) == r[1] .. r[2]

\* C1: for start <= end and parts >= 1, split_ranges returns without error
\* exactly min(parts, end-start+1) inclusive subranges (a, b) with a <= b,
\* whose union is {start..end} and which are pairwise disjoint.
C1_SplitPartition ==
    (call.fn = "split_ranges" /\ call.done /\ call.start <= call.end /\ call.parts >= 1) =>
        LET rs == call.out.ranges
            n == Len(rs)
        IN  /\ ~call.out.err
            /\ n = Min2(call.parts, call.end - call.start + 1)
            /\ \A i \in 1 .. n : rs[i][1] <= rs[i][2]
            /\ UNION {Frames(rs[i]) : i \in 1 .. n} = call.start .. call.end
            /\ \A i, j \in 1 .. n : i # j => Frames(rs[i]) \cap Frames(rs[j]) = {}

\* A call that splits 5 frames into 3 parts (uneven spans, several ranges).
C1_Witness ==
    /\ call.fn = "split_ranges" /\ call.done
    /\ call.start = 0 /\ call.end = 4 /\ call.parts = 3
    /\ Len(call.out.ranges) = 3

(***************************************************************************)
(* Properties of the orchestrator                                          *)
(***************************************************************************)
Exited == exitCode # NoExit
\* The main activity has ended: by sys.exit or by an uncaught exception.
MainEnded == pc \in {"exited", "crashed"}
\* main got past resolve_aerender_path and the scratch mkdir.
SetupPassed == offl # "none"
\* Detector d sends a terminate request to PID p in this step.
NewRequest(d, p) == termCount'[d][p] > termCount[d][p]
HasFailureReason(p) == child_failures[p] # "none"

\* C2: in a run with no signal and no spawn error the exit code is 0 only if
\* every spawned worker exited with return code 0 and none has a recorded
\* failure reason, and it is 1 if some worker exited non-zero or has a
\* recorded failure reason.
C2_ExitCodeReflectsWorkers ==
    (Exited /\ sigCount = 0 /\ ~spawnFailed) =>
        /\ exitCode = 0 =>
              \A p \in ChildIds :
                  children[p].exited /\ children[p].rc = 0 /\ ~HasFailureReason(p)
        /\ (\E p \in ChildIds :
                (children[p].exited /\ children[p].rc # 0) \/ HasFailureReason(p))
              => exitCode = 1

\* Two workers, both with return code 0, one of them with a failure reason
\* found in its log: the job exits 1.
C2_Witness ==
    /\ exitCode = 1 /\ sigCount = 0 /\ ~spawnFailed
    /\ Len(children) = 2
    /\ children[1].exited /\ children[1].rc = 0 /\ HasFailureReason(1)
    /\ children[2].exited /\ children[2].rc = 0 /\ ~HasFailureReason(2)

\* C3: when the frame range is bad (end < start) the orchestrator exits
\* immediately with code 2 and spawns no child process.
C3_BadRangeExits2 ==
    (args.end < args.start /\ SetupPassed /\ MainEnded) =>
        (exitCode = 2 /\ children = <<>>)

\* C4: when the chosen concurrency is greater than 1 and the output is a
\* single video file, the orchestrator exits with code 2 and no child process
\* is ever spawned.
C4_VideoRefused ==
    (args.out_video /\ concurrency > 1) =>
        /\ children = <<>>
        /\ MainEnded => exitCode = 2

\* C5: whenever SIGINT or SIGTERM was delivered before the exit, the final
\* exit code is 3.
C5_SignalExits3 ==
    (sigCount > 0 /\ Exited) => exitCode = 3

\* C6: a run in which no worker was spawned never exits with code 0.
C6_NoWorkerNoSuccess ==
    (Exited /\ children = <<>>) => exitCode # 0

\* C7: with kill_on_fail at its default, no signal and no spawn error, the
\* failure handling sends a terminate request only to the worker whose
\* failure signature was just detected and to no sibling, no shutdown
\* terminate is sent, and the supervisor exits only when all workers have
\* exited, with code 1 if the job was marked failed.
C7_FailureSparesSiblings ==
    [][(args.kill_on_fail /\ sigCount' = 0 /\ ~spawnFailed') =>
          /\ \A p \in Pids : ~NewRequest("shutdown", p)
          /\ \A p \in Pids :
                NewRequest("signature", p) =>
                    /\ ~HasFailureReason(p) /\ HasFailureReason(p)'
                    /\ \A q \in Pids \ {p} : TermTotal(q)' = TermTotal(q)
          /\ (~Exited /\ Exited' /\ children # <<>>) => AllDone'
          /\ (~Exited /\ Exited' /\ job_failed') => exitCode' = 1
      ]_vars

\* Worker 1 failed in-band and was the only one sent a terminate request;
\* worker 2 ran on to return code 0; the job then exited 1.
C7_Witness ==
    /\ args.kill_on_fail /\ sigCount = 0 /\ ~spawnFailed
    /\ Len(children) = 2
    /\ HasFailureReason(1) /\ termCount["signature"][1] = 1
    /\ TermTotal(2) = 0 /\ children[2].exited /\ children[2].rc = 0
    /\ exitCode = 1

C9_EveryLineInspected ==
    \A i \in 1 .. Len(log) :
        SignatureReason(log[i][2]) # "none" =>
            (HasFailureReason(log[i][1]) /\ TermTotal(log[i][1]) >= 1)

\* The heartbeat block runs in this step.
HeartbeatRuns ==
    pc = "heartbeat" /\ pc' = "check" /\ now - last_heartbeat >= HEARTBEAT_SECONDS

\* C10: the log-silence detector sends its terminate request to a worker at
\* the first heartbeat at which the worker is running and its last log line
\* is at least LOG_SILENCE_TIMEOUT old, at no other time, and at most once
\* per worker.
C10_SilenceTerminatesOnce ==
    /\ [](\A p \in Pids : termCount["silence"][p] <= 1)
    /\ [][HeartbeatRuns =>
            \A p \in ChildIds :
                (IsRunning(p) /\ now - last_log_time[p] >= LOG_SILENCE_TIMEOUT)
                    => termCount'["silence"][p] = 1
         ]_vars
    /\ [][\A p \in Pids :
            NewRequest("silence", p) =>
                /\ HeartbeatRuns /\ IsRunning(p)
                /\ now - last_log_time[p] >= LOG_SILENCE_TIMEOUT
         ]_vars

\* A worker that got its request, kept running in silence and has been seen
\* by a later heartbeat without a second request.
C10_Witness ==
    \E p \in ChildIds :
        /\ IsRunning(p)
        /\ termCount["silence"][p] = 1
        /\ last_heartbeat >= last_log_time[p] + LOG_SILENCE_TIMEOUT + HEARTBEAT_SECONDS

\* A failure reason of the zero-CPU detector.
ZeroCpuReasons == {"Stuck at launch (zero CPU heartbeats)", "Zero CPU with no render progress"}

C12_BurstLimit == ofl.moved <= OFFLOAD_BURST_LIMIT

\* A final pass has moved five files and leaves others, stable, behind.
C12_Witness ==
    /\ ofl.pass >= 1 /\ ofl.pc = "scan_end"
    /\ ofl.moved = OFFLOAD_BURST_LIMIT
    /\ \E f \in Files : is_file_stable(ofl.fs, f)

\* shutil.copy2 has returned in this step.
CopyDone == ofl.pc = "copy" /\ ofl'.pc = "remove"
\* os.remove has returned in this step: the file in hand is counted as moved.
CountedMoved == ofl.pc = "remove" /\ ofl'.moved = ofl.moved + 1

\* C13: a file is copied to the destination only if its stability check
\* succeeded in the same scan; and when a file is counted as moved, the scratch
\* copy is gone and the destination file holds the content the scratch file
\* had when it was removed.
C13_MoveKeepsContent ==
    /\ [][CopyDone => ofl.cur \in ofl.okd]_vars
    /\ [][CountedMoved =>
            /\ ~ofl'.fs[ofl.cur].exists
            /\ ofl.dest[ofl.cur] = ofl.fs[ofl.cur].data
         ]_vars

\* C14: the offloader never copies or removes a scratch file while a child
\* has that file open for writing.
C14_NoCollision ==
    [][(CopyDone \/ CountedMoved) => ~ofl.fs[ofl.cur].open]_vars

\* C15: the offloader performs at most three final passes and ends, and a
\* file that is still in scratch when it has ended is one whose stability
\* check or move failed in every final pass.
C15_OnlyLockedLeftBehind ==
    /\ ofl.pass <= 3
    /\ ofl.pc = "done" => \A f \in Files : ofl.fs[f].exists => f \in ofl.lockedAll

(***************************************************************************)
(* More properties of the orchestrator                                     *)
(***************************************************************************)
\* C16: whenever the scratch directory is removed, the offloader has been
\* told to stop and has ended; scratch never disappears while the offloader
\* activity is running.
C16_ScratchOutlivesOffloader ==
    /\ [][(scratch /\ ~scratch') => (stop_offload_event /\ offl = "done")]_vars
    /\ [](offl \in {"scan", "final"} => scratch)

\* After a signal during monitoring: the offloader has ended, scratch is gone
\* and the process has exited.
C16_Witness ==
    /\ Exited /\ sigCount > 0 /\ children # <<>>
    /\ offl = "done" /\ ~scratch

\* C17: the lines of any single PID appear in the consolidated log in the
\* order in which that child wrote them.
C17_PerPidOrder ==
    \A i, j \in 1 .. Len(log) :
        (i < j /\ log[i][1] = log[j][1]) => log[i][3] < log[j][3]

\* Two workers run; two lines of worker 2 went through its reader and the
\* queue and are in the log.
C17_Witness ==
    /\ Len(children) = 2
    /\ Len(log) = 2
    /\ log[1][1] = 2 /\ log[2][1] = 2

(***************************************************************************)
(* Properties of the planning functions                                    *)
(***************************************************************************)
\* C18: for concurrency N >= 1 and a non-empty list of pools with T CPU ids,
\* every block build_affinity_blocks returns is non-empty; the blocks
\* concatenated are the flattened pool list when N <= T, and hold every CPU
\* of the flattened list when N > T.
C18_BlocksCoverPools ==
    (call.fn = "build_affinity_blocks" /\ call.done
        /\ call.concurrency >= 1 /\ call.pools # <<>>) =>
        LET flat == Flatten(call.pools)
            T == Len(flat)
            joined == Flatten(call.out)
        IN  /\ \A i \in 1 .. Len(call.out) : call.out[i] # <<>>
            /\ call.concurrency <= T => joined = flat
            /\ call.concurrency > T =>
                   \A k \in 1 .. T : \E j \in 1 .. Len(joined) : joined[j] = flat[k]
            /\ T > 0 => Len(call.out) = call.concurrency

\* Five blocks from two CPUs in two pools: the last three blocks repeat the
\* last CPU.
C18_Witness ==
    /\ call.fn = "build_affinity_blocks" /\ call.done
    /\ call.concurrency = 5 /\ call.pools = <<<<1>>, <<2>>>>
    /\ call.out = <<<<1>>, <<2>>, <<2>>, <<2>>, <<2>>>>

\* C19: the concurrency N that main uses satisfies
\* 1 <= N <= max(max_concurrency, 1) and N <= end - start + 1, for an
\* explicit and for an automatic concurrency, every max_concurrency and every
\* host CPU/RAM reading.
C19_ConcurrencyWithinCap ==
    (call.fn = "concurrency" /\ call.done) =>
        /\ 1 <= call.out
        /\ call.out <= Max2(call.a.max_concurrency, 1)
        /\ call.out <= call.a.end - call.a.start + 1

(***************************************************************************)
(* Affinity at spawn                                                       *)
(***************************************************************************)
\* C20: once apply_affinity has failed for good for one worker (it returned
\* None, the Windows fallback included), no later spawn of the run attempts
\* to set affinity: a failed call is the last call.
C20_NoAffinityAfterFailure ==
    \A i \in 1 .. Len(hist.affinity) - 1 : hist.affinity[i] # <<>>

(***************************************************************************)
(* call_aerender.py                                                        *)
(***************************************************************************)
\* C21: on a host with more than 64 logical CPUs affinity is disabled when
\* the operator gives no --disable_affinity and enabled when the operator
\* explicitly enables it (--disable_affinity with a false value); on a host
\* with at most 64 logical CPUs the operator's setting is used unchanged.
C21_AffinityDefaultOnBigHosts ==
    (call.fn = "call_aerender" /\ call.done) =>
        LET explicit == call.option # "unset"
            user_disable == str_to_bool(DisableAffinityArg(call.option))
        IN  /\ (call.logical_cpus > 64 /\ ~explicit) => call.out
            /\ (call.logical_cpus > 64 /\ explicit /\ ~user_disable) => ~call.out
            /\ call.logical_cpus <= 64 => call.out = user_disable

(***************************************************************************)
(* Shutdown and spawn failures                                             *)
(***************************************************************************)
\* C22: after shutdown is triggered (cleanup_resources has set
\* stop_children_event) every worker that was still running has been sent a
\* terminate request, and no worker is still running when the orchestrator
\* exits: survivors of the grace period are force-killed.
C22_NoWorkerOutlivesShutdown ==
    /\ stop_children_event =>
           \A p \in RunningIds : termCount["shutdown"][p] > 0
    /\ (Exited /\ stop_children_event) => RunningIds = {}

\* C23: when Popen raises after at least one worker has been spawned, the
\* supervisor marks the job failed, sends no terminate request to the workers
\* already running and exits, with code 1, only after they have all exited;
\* when the first Popen raises it exits with code 1.
C23_SpawnFailureKeepsSupervising ==
    /\ [][(~spawnFailed /\ spawnFailed' /\ children # <<>>) =>
              (job_failed' /\ termCount' = termCount)]_vars
    /\ []((spawnFailed /\ Exited) => (exitCode = 1 /\ RunningIds = {}))

(***************************************************************************)
(* Chunks, subranges and blocks                                            *)
(***************************************************************************)
\* C24: for a sorted list of distinct frames and chunk_size >= 1, build_chunks
\* returns chunks indexed 0, 1, 2, ... in frame order, each a run of
\* consecutive given frames of at most chunk_size frames; together they cover
\* exactly the given frames and no frame is in two chunks.
C24_ChunksPartitionFrames ==
    (call.fn = "build_chunks" /\ call.done /\ call.chunk_size >= 1) =>
        LET out == call.out
            given == {call.frames[k] : k \in 1 .. Len(call.frames)}
            FramesOf(c) == c.start_frame .. c.end_frame
        IN  /\ \A i \in 1 .. Len(out) :
                   /\ out[i].index = i - 1
                   /\ out[i].start_frame <= out[i].end_frame
                   /\ out[i].end_frame - out[i].start_frame + 1 <= call.chunk_size
                   /\ FramesOf(out[i]) \subseteq given
            /\ \A i \in 1 .. Len(out) - 1 : out[i].end_frame < out[i + 1].start_frame
            /\ UNION {FramesOf(out[i]) : i \in 1 .. Len(out)} = given

\* Frames 0-2 and 4-5 in chunks of two: a chunk cut by the size, a chunk cut
\* by the gap and a full chunk.
C24_Witness ==
    /\ call.fn = "build_chunks" /\ call.done
    /\ call.frames = <<0, 1, 2, 4, 5>> /\ call.chunk_size = 2
    /\ call.out = <<[index |-> 0, start_frame |-> 0, end_frame |-> 1],
                    [index |-> 1, start_frame |-> 2, end_frame |-> 2],
                    [index |-> 2, start_frame |-> 4, end_frame |-> 5]>>

\* C25: for start <= end and parts >= 1, with total = end - start + 1 and
\* n = min(parts, total), the subranges of split_ranges are contiguous and
\* ascending (the first starts at start, each next one frame after the
\* previous end, the last ends at end); the first (total mod n) subranges hold
\* floor(total / n) + 1 frames and the others floor(total / n), so two sizes
\* differ by at most 1.
C25_SplitEvenAndContiguous ==
    (call.fn = "split_ranges" /\ call.done /\ call.start <= call.end /\ call.parts >= 1) =>
        LET rs == call.out.ranges
            total == call.end - call.start + 1
            n == Min2(call.parts, total)
            Size(i) == rs[i][2] - rs[i][1] + 1
        IN  /\ Len(rs) = n
            /\ rs[1][1] = call.start
            /\ rs[n][2] = call.end
            /\ \A i \in 1 .. n - 1 : rs[i + 1][1] = rs[i][2] + 1
            /\ \A i \in 1 .. n :
                   Size(i) = (total \div n) + (IF i <= total % n THEN 1 ELSE 0)
            /\ \A i, j \in 1 .. n : Size(i) - Size(j) <= 1

\* Five frames in three parts: sizes 2, 2, 1.
C25_Witness ==
    /\ call.fn = "split_ranges" /\ call.done
    /\ call.start = 0 /\ call.end = 4 /\ call.parts = 3
    /\ call.out.ranges = <<<<0, 1>>, <<2, 3>>, <<4, 4>>>>

\* C26: for N >= 1 and pools holding T >= 1 CPU ids, build_affinity_blocks
\* returns exactly N blocks; block i is the next contiguous slice of the
\* flattened pool list, of ceil(T / N) CPUs for the first (T mod N) blocks and
\* floor(T / N) for the others; a block whose slice would be empty (N > T)
\* is the single last CPU of the flattened list.
C26_BlockSizes ==
    (call.fn = "build_affinity_blocks" /\ call.done /\ call.concurrency >= 1
        /\ Flatten(call.pools) # <<>>) =>
        LET flat == Flatten(call.pools)
            T == Len(flat)
            N == call.concurrency
            floorTN == T \div N
            ceilTN == (T + N - 1) \div N
            Size(i) == IF i <= T % N THEN ceilTN ELSE floorTN
            Before(i) == (i - 1) * floorTN + Min2(i - 1, T % N)
        IN  /\ Len(call.out) = N
            /\ \A i \in 1 .. N :
                   call.out[i] = IF Size(i) > 0
                                 THEN SubSeq(flat, Before(i) + 1, Before(i) + Size(i))
                                 ELSE <<flat[T]>>

\* Three blocks from four CPUs, and four blocks from one CPU.
C26_Witness ==
    /\ call.fn = "build_affinity_blocks" /\ call.done
    /\ \/ /\ call.concurrency = 3 /\ call.pools = <<<<1, 2>>, <<2, 1>>>>
          /\ call.out = <<<<1, 2>>, <<2>>, <<1>>>>
       \/ /\ call.concurrency = 4 /\ call.pools = <<<<>>, <<2>>>>
          /\ call.out = <<<<2>>, <<2>>, <<2>>, <<2>>>>

\* C27: for every NUMA map the pools of the topology normalization are
\* non-empty, each pool is ascending with no id repeated, no CPU id is in two
\* pools, and so the affinity blocks built from the pools for N <= T are
\* pairwise disjoint.
C27_PoolsDisjointAndSorted ==
    (call.fn = "numa_nodes_to_pools" /\ call.done) =>
        LET pools == call.out
            Ids(s) == {s[k] : k \in 1 .. Len(s)}
            T == Len(Flatten(pools))
        IN  /\ \A i \in 1 .. Len(pools) :
                   /\ pools[i] # <<>>
                   /\ \A k \in 1 .. Len(pools[i]) - 1 : pools[i][k] < pools[i][k + 1]
            /\ \A i, j \in 1 .. Len(pools) : i # j => Ids(pools[i]) \cap Ids(pools[j]) = {}
            /\ \A N \in 1 .. T :
                   LET blocks == build_affinity_blocks(N, pools)
                   IN  \A i, j \in 1 .. Len(blocks) :
                           i # j => Ids(blocks[i]) \cap Ids(blocks[j]) = {}

(***************************************************************************)
(* Automatic concurrency                                                   *)
(***************************************************************************)
\* C28: with a concurrency hint below 1 the chosen N is
\* max(1, min(ram_cap, core_cap, max_concurrency)), where
\* ram_cap = max(1, floor(ram / (per * 1.25))), cores_per_worker = 4 with MFR
\* disabled and max(1, mfr_threads) otherwise, and
\* core_cap = max(1, physical / cores_per_worker).
C28_AutoConcurrencyFormula ==
    (call.fn = "auto_concurrency" /\ call.done /\ call.a.ram_per_process_gb > 0) =>
        LET a == call.a
            ram_cap == Max2(1, (4 * a.host.ram_gb) \div (5 * a.ram_per_process_gb))
            cores_per_worker == IF a.disable_mfr THEN 4 ELSE Max2(1, a.mfr_threads)
            core_cap == Max2(1, a.host.physical \div cores_per_worker)
        IN  call.out = Max2(1, Min2(Min2(ram_cap, core_cap), a.max_concurrency))

(***************************************************************************)
(* The zero-CPU detector                                                   *)
(***************************************************************************)
\* The zero-CPU detector sends a terminate request to p in this step.
ZeroCpuKill(p) == HeartbeatRuns /\ NewRequest("zero_cpu", p)

\* C29 as stated: the zero-CPU detector sends terminate requests only at a
\* heartbeat that is the 4th or a later one in a row at which every running
\* worker without render progress reported CPU <= 0.01, and every worker it
\* terminates has run for more than 4 * HEARTBEAT_SECONDS; a heartbeat at
\* which the condition fails resets the streak to 0.
C29_ZeroCpuKillAfterStreak ==
    /\ [][\A p \in Pids : ZeroCpuKill(p) =>
              /\ hist'.global >= ZERO_CPU_STUCK_HEARTBEATS
              /\ now - children[p].start_time > ZERO_CPU_STUCK_HEARTBEATS * HEARTBEAT_SECONDS
         ]_vars
    /\ [][(HeartbeatRuns /\ hist'.global = 0) => zero_cpu_global_streak' = 0]_vars

\* C29 as amended: the condition looks only at the workers whose CPU could
\* be read at the heartbeat (at least one), and every terminated worker has
\* run for at least 4 * HEARTBEAT_SECONDS.
C29_ZeroCpuKillAfterSampledStreak ==
    /\ [][\A p \in Pids : ZeroCpuKill(p) =>
              /\ hist'.global_sampled >= ZERO_CPU_STUCK_HEARTBEATS
              /\ zero_cpu_global_streak' >= ZERO_CPU_STUCK_HEARTBEATS
              /\ now - children[p].start_time >= ZERO_CPU_STUCK_HEARTBEATS * HEARTBEAT_SECONDS
         ]_vars
    /\ [][(HeartbeatRuns /\ hist'.global_sampled = 0) => zero_cpu_global_streak' = 0]_vars

\* Two workers, the second started later, both terminated by the zero-CPU
\* detector at the fourth heartbeat in a row.
C29_Witness ==
    /\ Len(children) = 2
    /\ children[2].start_time > children[1].start_time
    /\ hist.global_sampled >= ZERO_CPU_STUCK_HEARTBEATS
    /\ \A p \in ChildIds : termCount["zero_cpu"][p] = 1

\* The supervisor has consumed a render-progress line of p.
ShownProgress(p) == \E i \in 1 .. Len(log) : log[i][1] = p /\ HasProgress(log[i][2])

\* C30: a worker whose consumed log output has contained a render-progress
\* signature, at whatever position of the log queue, is not counted in the
\* zero-CPU condition of a heartbeat (it is in render_progress), has its
\* zero-CPU streak at 0 after the heartbeat and is never sent a terminate
\* request by the zero-CPU detector.
C30_ProgressShieldsWorker ==
    /\ [][\A p \in Pids : (HeartbeatRuns /\ ShownProgress(p)) =>
              /\ p \in render_progress
              /\ IsRunning(p) => zero_cpu_counts'[p] = 0
              /\ ~NewRequest("zero_cpu", p)
         ]_vars

(***************************************************************************)
(* The spawn loop                                                          *)
(***************************************************************************)
\* The supervisor loop has started and has not been left.
InSupervisorLoop == pc \in {"drain", "heartbeat", "check"}

\* C31: when the supervisor loop starts in a run with no signal and no spawn
\* error, there is exactly one worker per subrange of split_ranges, spawned in
\* subrange order with a spawn_delay sleep before every spawn but the first;
\* worker i is started with -s/-e equal to the bounds of subrange i and is
\* assigned affinity block i.
C31_OneWorkerPerSubrange ==
    (InSupervisorLoop /\ sigCount = 0 /\ ~spawnFailed) =>
        LET rs == split_ranges(args.start, args.end, concurrency).ranges
            blocks == build_affinity_blocks(concurrency, lim.numa)
            n == Len(rs)
        IN  /\ Len(children) = n
            /\ Len(hist.planned) = n
            /\ \A i \in 1 .. n :
                   /\ children[i].cmd.s = rs[i][1]
                   /\ children[i].cmd.e = rs[i][2]
                   /\ children[i].frame_range = rs[i]
                   /\ ~args.disable_affinity =>
                          (i <= Len(blocks) /\ hist.planned[i] = blocks[i])
            /\ n >= 1 => children[1].start_time = 0
            /\ \A i \in 2 .. n :
                   children[i].start_time >= children[i - 1].start_time + args.spawn_delay

\* Two workers for frames 0 and 1, the second spawned spawn_delay seconds
\* after the first, planned on the two halves of the CPU list.
C31_Witness ==
    /\ InSupervisorLoop /\ sigCount = 0 /\ ~spawnFailed
    /\ Len(children) = 2
    /\ children[1].cmd.s = 0 /\ children[1].cmd.e = 0
    /\ children[2].cmd.s = 1 /\ children[2].cmd.e = 1
    /\ children[2].start_time = children[1].start_time + args.spawn_delay
    /\ hist.planned = <<<<0, 1>>, <<2, 3>>>>

(***************************************************************************)
(* The offloader's retries and scans                                       *)
(***************************************************************************)
\* The offloader has a file in hand (copy2 or os.remove comes next).
FileInHand == call.fn = "offload" /\ ofl.pc \in {"copy", "remove"}
\* In this step the except PermissionError clause sends the file in hand to
\* another attempt.
Retried == FileInHand /\ ofl'.pc = "copy" /\ ofl'.attempt = ofl.attempt + 1
\* In this step the file in hand is left for this scan, not moved.
Abandoned == FileInHand /\ ofl'.pc = "iter" /\ ofl'.moved = ofl.moved
\* In this step os.remove(local_file) raises PermissionError.
RemoveRefused == Retried \/ (Abandoned /\ ofl.pc = "remove")
\* In this step process_files starts a scan.
ScanStarts == call.fn = "offload" /\ ofl.pc \in {"loop", "scan_end"} /\ ofl'.pc = "iter"

\* C32 as stated: a file whose move raises PermissionError is tried again up
\* to 3 times within the scan, so it is left for a later scan only when 3
\* retries have been used.
C32_ThreeRetries ==
    [][(Abandoned /\ ofl.pc = "remove") => ofl.attempt = 3]_vars

\* C32, amended: within one scan a file is tried 3 times, that is with 2
\* retries: a PermissionError on the first or second try leads to another try,
\* one on the third try leaves the file for this scan; a file that is left
\* stays in scratch, is not counted as moved and is listed again by every
\* later scan while it exists; any other error leaves the file without retry.
C32_ThreeAttempts ==
    /\ [][Retried => (ofl.fs[ofl.cur].open /\ ofl.attempt < 2)]_vars
    /\ [][(RemoveRefused /\ ofl.attempt < 2) => Retried]_vars
    /\ [][(Abandoned /\ ofl.pc = "remove") => ofl.attempt = 2]_vars
    /\ [][(Abandoned /\ ofl.attempt < 2) => (ofl.pc = "copy" /\ lim.nas)]_vars
    /\ [][Abandoned =>
            /\ ofl'.fs[ofl.cur].exists
            /\ ofl'.moved = ofl.moved
         ]_vars
    /\ [][ScanStarts =>
            \A f \in Files : ofl.fs[f].exists =>
                \E i \in 1 .. Len(ofl'.todo) : ofl'.todo[i] = f]_vars

\* A file that a child opened again after the stability check was tried three
\* times, copied, and not removed: it is left in scratch, none is counted.
C32_Witness ==
    /\ call.fn = "offload"
    /\ ofl.pc = "iter" /\ ofl.cur = NoFile /\ ofl.attempt = 2 /\ ofl.moved = 0
    /\ ofl.fs[1].exists /\ ofl.fs[1].open /\ ofl.dest[1] # NoData

\* The files that have been moved: gone from scratch, present at the
\* destination.
MovedFiles == {f \in Files : ~ofl.fs[f].exists /\ ofl.dest[f] # NoData}
\* The stable files still in scratch.
StableFiles == {f \in Files : is_file_stable(ofl.fs, f)}
\* ceil(a / b) for a >= 0, b > 0
CeilDiv(a, b) == (a + b - 1) \div b

\* C33: with n stable files in scratch, no new files arriving and no move
\* errors, each scan moves exactly min(5, files remaining), so that all n
\* files are at the destination after ceil(n/5) scans, and the wait after a
\* scan of the scan loop is OFFLOAD_SCAN_INTERVAL when the scan moved at least
\* one file and OFFLOAD_IDLE_INTERVAL when it moved none.
C33_BurstsOfFive ==
    LET n == Cardinality(MovedFiles) + Cardinality(StableFiles)
    IN  /\ ofl.pc = "scan_end" =>
               ofl.moved = Min2(OFFLOAD_BURST_LIMIT, ofl.moved + Cardinality(StableFiles))
        /\ (ofl.pc \in {"loop", "done"} /\ ofl.scans < MaxScans) =>
               Cardinality(MovedFiles) = Min2(n, OFFLOAD_BURST_LIMIT * ofl.scans)
        /\ (ofl.pc \in {"loop", "done"} /\ ofl.scans >= CeilDiv(n, OFFLOAD_BURST_LIMIT)) =>
               StableFiles = {}
        /\ (ofl.pc = "loop" /\ ofl.pass = 0 /\ ofl.scans > 0) =>
               /\ ofl.moved > 0 => ofl.wait = OFFLOAD_SCAN_INTERVAL
               /\ ofl.moved = 0 => ofl.wait = OFFLOAD_IDLE_INTERVAL

\* Twenty stable files: the fourth scan of the scan loop has moved the last
\* five and waits OFFLOAD_SCAN_INTERVAL.
C33_Witness ==
    /\ call.fn = "offload" /\ ofl.pc = "loop" /\ ofl.pass = 0
    /\ Cardinality(MovedFiles) = 20
    /\ ofl.scans = 4 /\ ofl.moved = OFFLOAD_BURST_LIMIT
    /\ ofl.wait = OFFLOAD_SCAN_INTERVAL

(***************************************************************************)
(* Exit code 0                                                             *)
(***************************************************************************)
\* C34: whenever the orchestrator exits with code 0, every frame file that a
\* worker wrote into scratch exists at the final destination: no file is
\* removed from scratch, by the offloader or by the scratch cleanup, without
\* having been copied to the destination first.
C34_NoFrameLostOnSuccess ==
    exitCode = 0 =>
        \A f \in Files :
            (ofl.fs[f].data > 0 /\ ~ofl.fs[f].exists) => ofl.dest[f] # NoData

\* C35: whenever the orchestrator exits with code 0, every subrange of
\* split_ranges, and hence every frame of [start, end], was assigned to a
\* worker that was spawned and exited with return code 0, also when a signal
\* arrives before or during the spawn loop.
C35_SuccessCoversEverySubrange ==
    exitCode = 0 =>
        LET rs == split_ranges(args.start, args.end, concurrency).ranges
        IN  /\ \A i \in 1 .. Len(rs) :
                   \E p \in ChildIds :
                       /\ children[p].frame_range = rs[i]
                       /\ children[p].exited /\ children[p].rc = 0
            /\ \A fr \in args.start .. args.end :
                   \E p \in ChildIds :
                       /\ fr \in Frames(children[p].frame_range)
                       /\ children[p].exited /\ children[p].rc = 0

(***************************************************************************)
(* Shutdown and the spawn loop                                             *)
(***************************************************************************)
\* C36: once shutdown has been triggered (a signal was handled and the stop
\* event is set) no new child process is spawned, also when the signal
\* arrives during the spawn_delay sleep of the spawn loop; and every child
\* created before the trigger is among the workers that receive the terminate
\* request.
C36_NoSpawnAfterShutdown ==
    /\ [][(sigCount > 0 /\ stop_children_event) => Len(children') = Len(children)]_vars
    /\ [][(~stop_children_event /\ stop_children_event') =>
              \A p \in RunningIds : NewRequest("shutdown", p)]_vars

(***************************************************************************)
(* Terminate requests and reader activities                                *)
(***************************************************************************)
\* C37: the supervisor issues a terminate request for a PID only while that
\* worker's process is still running: no terminate is issued, by
\* failure-signature handling, log-silence detection or zero-CPU detection,
\* for a worker that has already exited.
C37_TerminateOnlyRunning ==
    [][\A p \in Pids :
          \A d \in {"signature", "silence", "zero_cpu"} :
              NewRequest(d, p) => IsRunning(p)]_vars

\* C38: every log line a child wrote before it exited appears in the
\* consolidated log before the orchestrator exits: when the supervisor leaves
\* its loop because all workers are done, no line is still unread in a pipe
\* or unconsumed in the log queue.
C38_NoLogLineLost ==
    /\ (pc = "final_join" \/ (pc = "cleanup_join" /\ retpc = "exit1" /\ AllDone
                               /\ ~spawnFailed /\ sigCount = 0)) =>
           (out_q = <<>> /\ \A p \in Pids : pipe[p] = <<>>)
    /\ (Exited /\ SetupPassed /\ AllDone /\ ~spawnFailed /\ sigCount = 0) =>
           Len(log) = written

(***************************************************************************)
(* The end of the process                                                  *)
(***************************************************************************)
\* C39: every run in which all spawned workers eventually exit ends with the
\* whole process exiting: once started, the non-daemon offloader activity is
\* always told to stop and finishes, also when the main activity ends through
\* an error after the offloader was started (a frame range with end < start,
\* a malformed env file).  Only the main activity sets stop_offload_event, so
\* the process exits if and only if, when the main activity has ended, the
\* offloader has been told to stop and has finished.
C39_ProcessAlwaysExits ==
    (MainEnded /\ SetupPassed) => (stop_offload_event /\ offl = "done")

(***************************************************************************)
(* The range handed to the orchestrator                                    *)
(***************************************************************************)
\* C40: the inclusive range [start, end] that call_aerender hands to the
\* orchestrator contains only frames named by the frames specification: for
\* every frames spec, with or without chunking, start <= end and every
\* integer in [start, end] is a frame of the spec.
C40_RangeWithinFramesSpec ==
    (call.fn = "select_task_range" /\ call.done /\ ~call.out.err) =>
        /\ call.out.start <= call.out.end
        /\ \A fr \in call.out.start .. call.out.end :
               \E i \in 1 .. Len(call.frames_spec) :
                   LET part == call.frames_spec[i]
                   IN  \/ part.kind = "one" /\ fr = part.a
                       \/ part.kind = "range" /\ part.a <= fr /\ fr <= part.b

====
